---- MODULE Spec2Model ----
(***************************************************************************)
(* Utility-bill text parsers of scripts/<provider>/parser.py.              *)
(*                                                                         *)
(* A document text is a sequence of lines.  A line has a literal label     *)
(* (the words of the line, as printed) and a value (the date, digit run or *)
(* address that follows the label).  Classification works on the           *)
(* characters of the labels; the regular expressions of the field          *)
(* extractors are modelled as "label followed by a value of a shape".      *)
(***************************************************************************)
EXTENDS Integers, Sequences, FiniteSets, TLC

VARIABLES provider, file_exists, text, now_year, pc, detected, record, error,
          files, clock, call, returned

vars == <<provider, file_exists, text, now_year, pc, detected, record, error, files, clock, call, returned>>

Providers == {"duke", "durham", "enbridge", "graham", "smud", "spectrum", "wake", "xfinity"}

None == [k |-> "none"]

-----------------------------------------------------------------------------
(* Strings: str.lower(), the `in` operator, str.find(), str.strip().       *)

UpperChars == "ABCDEFGHIJKLMNOPQRSTUVWXYZ"
LowerChars == "abcdefghijklmnopqrstuvwxyz"

UpperSet == {SubSeq(UpperChars, i, i) : i \in 1..26}

LowerMap == [c \in UpperSet |->
               LET i == CHOOSE j \in 1..26 : SubSeq(UpperChars, j, j) = c
               IN SubSeq(LowerChars, i, i)]

LowerChar(c) == IF c \in UpperSet THEN LowerMap[c] ELSE c

RECURSIVE Lower(_)
\* Python: s.lower(), one half of the string after the other
Lower(s) ==
    IF Len(s) = 0 THEN ""
    ELSE IF Len(s) = 1 THEN LowerChar(s)
    ELSE Lower(SubSeq(s, 1, Len(s) \div 2)) \o Lower(SubSeq(s, Len(s) \div 2 + 1, Len(s)))

\* Python: p in t
Contains(t, p) == \E i \in 1..(Len(t) - Len(p) + 1) : SubSeq(t, i, i + Len(p) - 1) = p

\* Python: t.find(p), 0-based, -1 when absent
Find(t, p) ==
    IF Contains(t, p)
    THEN (CHOOSE i \in 1..(Len(t) - Len(p) + 1) :
             /\ SubSeq(t, i, i + Len(p) - 1) = p
             /\ \A j \in 1..(i - 1) : SubSeq(t, j, j + Len(p) - 1) # p) - 1
    ELSE -1

RECURSIVE Remove(_, _)
\* Python: t.replace(p, "")
Remove(t, p) ==
    IF Len(t) < Len(p) THEN t
    ELSE IF SubSeq(t, 1, Len(p)) = p THEN Remove(SubSeq(t, Len(p) + 1, Len(t)), p)
    ELSE SubSeq(t, 1, 1) \o Remove(SubSeq(t, 2, Len(t)), p)

\* Python: t[:n]
Prefix(t, n) == SubSeq(t, 1, IF n < Len(t) THEN n ELSE Len(t))

EndsWith(t, p) == Len(t) >= Len(p) /\ SubSeq(t, Len(t) - Len(p) + 1, Len(t)) = p

WhiteChars == {" ", "\n", "\t"}

\* Python: not t.strip()
IsBlank(t) == \A i \in 1..Len(t) : SubSeq(t, i, i) \in WhiteChars

-----------------------------------------------------------------------------
(* Calendar dates (datetime.date) and the date strings a document prints.  *)

Date(y, m, d) == [k |-> "d", y |-> y, m |-> m, d |-> d]

DateOrd(x) == x.y * 10000 + x.m * 100 + x.d

\* a < b on two dates
Before(a, b) == DateOrd(a) < DateOrd(b)

Leap(y) == (y % 4 = 0 /\ y % 100 # 0) \/ y % 400 = 0

DaysIn(m, y) ==
    IF m = 2 THEN (IF Leap(y) THEN 29 ELSE 28)
    ELSE IF m \in {4, 6, 9, 11} THEN 30 ELSE 31

\* date(y, m, d), or strptime of a well-formed string: ValueError (None here) unless
\* the day exists
MakeDate(y, m, d) ==
    IF y \in 1..9999 /\ m \in 1..12 /\ d \in 1..DaysIn(m, y) THEN Date(y, m, d) ELSE None

(* A printed date: f is its layout,                                        *)
(*   "md"   Jan 5          "mdcy" Jan 5, 2026      "mdy"  Jan 5 2026       *)
(*   "mdy2" Jan 5 26       "num4" 01/05/2026       "num2" 01/05/26         *)
(* m = 13 prints a three-letter word that is no month ("the 5").           *)
DateStr(f, m, d, y) == [k |-> "date", f |-> f, m |-> m, d |-> d, y |-> y]

\* two dates on a line: "Nov 26 - Dec 29", "12/05/2025 01/05/2026 31 67783"; sep is
\* what stands between them, days the digit run after them (None when there is none),
\* more whether further numbers follow
Period(ds1, sep, ds2, days, more) ==
    [k |-> "period", s |-> ds1, sep |-> sep, e |-> ds2, days |-> days, more |-> more]

\* a digit run of n digits and the word after it ("34 days"); v is its value, or, of a
\* run of more than MaxRun digits, the one digit it repeats
Digits(v, n, unit) == [k |-> "int", v |-> v, n |-> n, unit |-> unit]

\* the Graham meter line: "12/14/25 87236 01/14/26 91883 4647"
Meter(ds1, prev, ds2, cur, use) ==
    [k |-> "meter", d1 |-> ds1, prev |-> prev, d2 |-> ds2, cur |-> cur, use |-> use]

\* an account number as printed; after is what follows it on the line
Acct(str, after) == [k |-> "acct", s |-> str, after |-> after]

\* a street address: num "1553", street "UNDERBRUSH DR", numlast TRUE when printed
\* "UNDERBRUSH DR 1553", city "DURHAM NC 27703" or "" when no city line follows
Addr(num, street, numlast, city) ==
    [k |-> "addr", num |-> num, street |-> street, numlast |-> numlast, city |-> city]

\* free text after a label
Str(str) == [k |-> "str", s |-> str]

\* a data row: account number, bill date and, on Wake's, the service location (None on
\* the others)
Row(acct, ds, addr) == [k |-> "row", acct |-> acct, date |-> ds, addr |-> addr]

-----------------------------------------------------------------------------
(* The characters of a document: each line prints its label, then its value. *)

DigitChars == "0123456789"

DigitStr(n) == SubSeq(DigitChars, n + 1, n + 1)

Str2(n) == DigitStr((n \div 10) % 10) \o DigitStr(n % 10)

Str4(n) == Str2(n \div 100) \o Str2(n % 100)

RECURSIVE StrN(_)
\* str(n)
StrN(n) == IF n < 10 THEN DigitStr(n) ELSE StrN(n \div 10) \o DigitStr(n % 10)

\* the digits printed of a run: no pattern counts more than 16 digits of one, so a long
\* run stands in the text with its first MaxRun digits
MaxRun == 20

RECURSIVE Repeat(_, _)
\* c * k
Repeat(c, k) == IF k = 0 THEN "" ELSE c \o Repeat(c, k - 1)

RenderDigits(v) == IF v.n > MaxRun THEN Repeat(DigitStr(v.v), MaxRun) ELSE StrN(v.v)

MonthAbbr == <<"Jan", "Feb", "Mar", "Apr", "May", "Jun", "Jul", "Aug", "Sep", "Oct", "Nov",
               "Dec", "the">>

\* month and day, then the year in four digits or in two
RenderDate(ds) ==
    (IF ds.f \in {"num4", "num2"} THEN Str2(ds.m) \o "/" \o Str2(ds.d) \o "/"
     ELSE MonthAbbr[ds.m] \o " " \o StrN(ds.d)
          \o (CASE ds.f = "md" -> "" [] ds.f = "mdcy" -> ", " [] OTHER -> " "))
    \o (IF ds.f = "md" THEN ""
        ELSE IF ds.f \in {"mdy2", "num2"} THEN Str2(ds.y) ELSE Str4(ds.y))

RenderAddr(a) ==
    (IF a.numlast THEN a.street \o " " \o a.num ELSE a.num \o " " \o a.street)
    \o (IF a.city = "" THEN "" ELSE "\n" \o a.city)

RECURSIVE Concat(_)
\* "".join(strs)
Concat(strs) == IF strs = <<>> THEN "" ELSE Head(strs) \o Concat(Tail(strs))

\* a value prints its parts one after the other: dates, digit runs, addresses and the
\* strings between them
RenderVal(v) ==
    LET Part(x) == CASE x.k = "date" -> RenderDate(x)
                     [] x.k = "int" -> RenderDigits(x)
                     [] x.k = "addr" -> RenderAddr(x)
                     [] x.k = "str" -> x.s
        Join(parts) == Concat([i \in 1..Len(parts) |-> Part(parts[i])])
    IN Join(CASE v.k = "none" -> <<>>
              [] v.k \in {"date", "addr", "str"} -> <<v>>
              [] v.k = "period" ->
                    <<v.s, Str(v.sep), v.e>>
                    \o (IF v.days = None THEN <<>> ELSE <<Str(" "), v.days>>)
                    \o (IF v.more THEN <<Str(" 67783 6818 7602")>> ELSE <<>>)
              [] v.k = "int" -> <<v, Str(IF v.unit = "" THEN "" ELSE " " \o v.unit)>>
              [] v.k = "meter" ->
                    <<v.d1, Str(" "), v.prev, Str(" "), v.d2, Str(" "), v.cur, Str(" "), v.use>>
              [] v.k = "acct" -> <<Str(v.s \o (IF v.after = "" THEN "" ELSE " " \o v.after))>>
              [] v.k = "row" ->
                    <<Str(v.acct \o " "), v.date>>
                    \o (IF v.addr = None THEN <<>> ELSE <<Str(" "), v.addr>>))

\* what a line prints after its value (an amount: "Total Amount Due Jan 26 $140.14"),
\* "" on a line that ends with its value
TailOf(l) == IF "tail" \in DOMAIN l THEN " " \o l.tail ELSE ""

\* a label that ends in "=" is a bracketed tag: [CDATE=01/09/2026]
RenderLine(l) ==
    LET After(val) == IF l.label = "" THEN val
                      ELSE IF EndsWith(l.label, "=") THEN l.label \o val \o "]"
                      ELSE l.label \o " " \o val
    IN (IF l.val = None THEN l.label ELSE After(RenderVal(l.val))) \o TailOf(l)

RECURSIVE JoinLines(_)
\* full_text: the lines of the pages, each ended by "\n"
JoinLines(ls) == IF ls = <<>> THEN "" ELSE RenderLine(Head(ls)) \o "\n" \o JoinLines(Tail(ls))

-----------------------------------------------------------------------------
(* detect_document_type of the eight parsers.                              *)

disconnect_indicators(p) ==
    CASE p = "duke" -> <<"disconnection notice", "service will be disconnected", "past due",
                         "final notice", "disconnect date">>
      [] p = "wake" -> <<"disconnection notice", "your service will be disconnected",
                         "amount past due", "final notice before disconnect",
                         "scheduled for disconnection">>
      [] p = "enbridge" -> <<"disconnect notice", "service disconnection", "final notice",
                             "past due", "termination of service",
                             "service will be disconnected">>
      [] p = "spectrum" -> <<"disconnect notice", "service disconnection", "final notice",
                             "past due", "termination of service",
                             "service will be disconnected", "collection agency">>
      [] p = "xfinity" -> <<"disconnect notice", "service disconnection", "final notice",
                            "past due", "termination of service",
                            "service will be disconnected", "collection agency",
                            "suspension notice">>
      [] p = "durham" -> <<"water will be shut off", "disconnect date",
                           "last day to pay to stop", "water shutoff", "past due",
                           "payment has not been received", "important notice enclosed">>
      [] p = "graham" -> <<"service will be disconnected", "disconnect notice", "final notice",
                           "past due", "payment has not been received", "water shutoff",
                           "service termination">>
      [] p = "smud" -> <<"service will be disconnected", "disconnect notice", "final notice",
                         "termination notice", "shutoff notice", "past due",
                         "immediate payment required">>

bill_indicators(p) ==
    CASE p = "duke" -> <<"your energy bill", "duke energy", "billing summary", "energy used",
                         "current electric charges", "total amount due">>
      [] p = "wake" -> <<"current charges due by", "energy used", "facility charge",
                         "kwh usage history", "meter reading", "residential",
                         "billing period">>
      [] p = "enbridge" -> <<"enbridge gas", "gas charges", "therms", "billing period",
                             "meter reading", "amount due", "account summary">>
      [] p = "spectrum" -> <<"spectrum", "internet", "amount due", "billing", "statement date",
                             "service from", "auto pay", "promotional discount">>
      [] p = "xfinity" -> <<"xfinity", "comcast", "amount due", "billing date", "services from",
                            "automatic payment", "your bill at a glance",
                            "thank you for choosing xfinity", "regular monthly charges">>
      [] p = "durham" -> <<"city of durham utility bill", "consumption history", "meter number",
                           "total current charges due by", "balance forward",
                           "water consumption inside city">>
      [] p = "graham" -> <<"current charges detail", "current meter activity", "billing period",
                           "amount due", "payment coupon", "city of graham">>
      [] p = "smud" -> <<"your bill", "billing statement", "amount due", "electric service",
                         "usage summary", "kwh", "kilowatt", "meter reading", "smud">>

\* the bill_score needed for BILL
bill_threshold(p) == IF p \in {"enbridge", "spectrum", "xfinity"} THEN 3 ELSE 2

\* DocumentType.DISCONNECT_NOTICE, or DELINQUENCY_NOTICE for the two water parsers
NoticeType(p) == IF p \in {"durham", "graham"} THEN "delinquency_notice" ELSE "disconnect_notice"

\* sum(1 for ind in indicators if ind in text_lower)
Score(inds, tl) == Cardinality({i \in 1..Len(inds) : Contains(tl, inds[i])})

\* Wake: an indicator counts unless "if your bill shows" occurs in
\* text_lower[:text_lower.find(ind)+50]
wake_disconnect_score(tl) ==
    LET inds == disconnect_indicators("wake")
    IN Cardinality({i \in 1..Len(inds) :
            /\ Contains(tl, inds[i])
            /\ ~Contains(Prefix(tl, Find(tl, inds[i]) + 50), "if your bill shows")})

detect_wake(t) ==
    LET tl == Lower(t)
    IN IF Contains(tl, "bill type") /\ Contains(tl, "normal") THEN "bill"
       ELSE IF wake_disconnect_score(tl) >= 2 THEN "disconnect_notice"
       ELSE IF Score(bill_indicators("wake"), tl) >= 2 THEN "bill"
       ELSE "unknown"

detect_two_bucket(p, t) ==
    LET tl == Lower(t)
    IN IF Score(disconnect_indicators(p), tl) >= 2 THEN NoticeType(p)
       ELSE IF Score(bill_indicators(p), tl) >= bill_threshold(p) THEN "bill"
       ELSE "unknown"

detect_document_type(p, t) == IF p = "wake" THEN detect_wake(t) ELSE detect_two_bucket(p, t)

-----------------------------------------------------------------------------
(* parse_date of the eight parsers, on a printed date.                     *)

\* `reference_year: int = None` not given
NoYear == 0

\* strptime's %y: 69..99 are 19yy, 0..68 are 20yy
Pivot(yy) == IF yy <= 68 THEN 2000 + yy ELSE 1900 + yy

\* the strptime format a layout is accepted by
FormatOf(f) ==
    CASE f = "mdcy" -> "%b %d, %Y"
      [] f = "mdy" -> "%b %d %Y"
      [] f = "num4" -> "%m/%d/%Y"
      [] f = "num2" -> "%m/%d/%y"
      [] OTHER -> "no format"

\* for fmt in formats: try: return datetime.strptime(date_str, fmt).date()
Strptime(ds, formats) ==
    IF ds.k = "date" /\ FormatOf(ds.f) \in formats
    THEN MakeDate(IF ds.f = "num2" THEN Pivot(ds.y) ELSE ds.y, ds.m, ds.d)
    ELSE None

duke_parse_date(ds, reference_year) ==
    IF ds = None THEN None
    ELSE IF /\ ds.k = "date" /\ ds.f = "md" /\ reference_year # NoYear
            /\ MakeDate(reference_year, ds.m, ds.d) # None
         THEN MakeDate(reference_year, ds.m, ds.d)
         ELSE Strptime(ds, {"%b %d, %Y", "%B %d, %Y", "%m/%d/%Y", "%m/%d/%y", "%Y-%m-%d"})

\* Spectrum and Xfinity share this parse_date; now is datetime.now().year
spectrum_parse_date(ds, ref_year, now) ==
    LET ref == IF ref_year = NoYear THEN now ELSE ref_year
        withyear == Strptime(ds, {"%b %d, %Y", "%b %d %Y", "%B %d, %Y", "%B %d %Y",
                                  "%m/%d/%y", "%m/%d/%Y", "%Y-%m-%d"})
    IN IF ds = None THEN None
       ELSE IF withyear # None THEN withyear
       ELSE IF ds.k = "date" /\ ds.f = "md" THEN MakeDate(ref, ds.m, ds.d)
       ELSE None

wake_parse_date(ds) ==
    IF ds = None THEN None
    ELSE Strptime(ds, {"%m/%d/%Y", "%m/%d/%y", "%Y-%m-%d", "%b %d, %Y", "%B %d, %Y"})

enbridge_parse_date(ds) ==
    IF ds = None THEN None
    ELSE Strptime(ds, {"%b %d %Y", "%b %d, %Y", "%B %d %Y", "%B %d, %Y", "%m/%d/%y",
                       "%m/%d/%Y", "%Y-%m-%d"})

\* Durham and Graham list the same three formats
water_parse_date(ds) ==
    IF ds = None THEN None ELSE Strptime(ds, {"%m/%d/%Y", "%m/%d/%y", "%Y-%m-%d"})

-----------------------------------------------------------------------------
(* Character classes of the patterns.                                      *)

DigitSet == {SubSeq(DigitChars, i, i) : i \in 1..10}

\* a quantified character class: cls "d" is \d, "s" is \s, "ds" is [\d\s], "d," is
\* [\d,], "alpha" is [A-Za-z], "^$-" is [^\$-] and so on, ": \t" and "^\n\t" the
\* characters SMUD's scanner skips and stops at, any other cls is that literal
\* character; {lo,hi} its repetition
It(cls, lo, hi) == [cls |-> cls, lo |-> lo, hi |-> hi]

InClass(c, cls) ==
    CASE cls = "d" -> c \in DigitSet
      [] cls = "s" -> c \in WhiteChars
      [] cls = "ds" -> c \in DigitSet \cup WhiteChars
      [] cls = ": \t" -> c \in {":", " ", "\t"}
      [] cls = "^\n\t" -> c \notin {"\n", "\t"}
      [] cls = "^\n\t)" -> c \notin {"\n", "\t", ")"}
      [] cls = "d," -> c \in DigitSet \cup {","}
      [] cls = "d." -> c \in DigitSet \cup {"."}
      [] cls = "-$" -> c \in {"-", "$"}
      [] cls = ":s" -> c \in WhiteChars \cup {":"}
      [] cls = "alpha" -> \E i \in 1..26 : c \in {SubSeq(UpperChars, i, i), SubSeq(LowerChars, i, i)}
      [] cls = "^$" -> c # "$"
      [] cls = "^$-" -> c \notin {"$", "-"}
      [] cls = "^$\n" -> c \notin {"$", "\n"}
      [] cls = "^-d" -> c \notin DigitSet \cup {"-"}
      [] OTHER -> c = cls

\* how many characters of s from pos on are in cls, at most hi
RunLen(s, pos, cls, hi) ==
    LET Run(top) ==
            CHOOSE n \in 0..top :
                \A j \in 0..n : IF j < n THEN InClass(SubSeq(s, pos + j, pos + j), cls)
                                 ELSE n = top \/ ~InClass(SubSeq(s, pos + n, pos + n), cls)
        Least(a, b) == IF a < b THEN a ELSE b
    IN Run(IF Len(s) < pos THEN 0 ELSE Least(hi, Len(s) - pos + 1))

-----------------------------------------------------------------------------
(* re.search(pattern, text): a pattern is the label it asks for before the *)
(* group and the shape of the group.                                       *)

\* what the group captures of the value v, None when the value does not match:
\*   "mon_d"      ([A-Za-z]{3}\s+\d{1,2})   the month and day, whatever follows
\*   "mon_d_y4"   (\w+\s+\d{1,2},?\s+\d{4})
\*   "mon_d_cy4"  (\w+\s+\d{1,2},\s+\d{4})
\*   "mon_d_ncy4" (\w+\s+\d+\s+\d{4})
\*   "mon_d_opt"  ([A-Za-z]+\s+\d{1,2},?\s*\d{0,4})
\*   "feb_d_y4"   Feb\s+\d+\s+\d{4}
\*   "mon_d_y24"  ([A-Za-z]{3}\s+\d{1,2}\s+\d{2,4})
\*   "num4"       (\d{1,2}/\d{1,2}/\d{4})   "num24" (\d{1,2}/\d{1,2}/\d{2,4})
\*   "num2"       (\d{2}/\d{2}/\d{2})       of 12/05/2025 it takes 12/05/20
\*   "days"       (\d+)\s*days
Capture(shape, v) ==
    IF shape = "days" THEN (IF v.k = "int" /\ Lower(v.unit) = "days" THEN v ELSE None)
    ELSE IF v.k # "date" THEN None
    ELSE CASE shape = "mon_d" ->
                IF v.f \in {"md", "mdcy", "mdy", "mdy2"} THEN DateStr("md", v.m, v.d, 0) ELSE None
           [] shape = "mon_d_y4" -> IF v.f \in {"mdcy", "mdy"} THEN v ELSE None
           [] shape = "mon_d_cy4" -> IF v.f = "mdcy" THEN v ELSE None
           [] shape = "mon_d_ncy4" -> IF v.f = "mdy" THEN v ELSE None
           [] shape = "mon_d_opt" -> IF v.f \in {"md", "mdcy", "mdy", "mdy2"} THEN v ELSE None
           [] shape = "feb_d_y4" -> IF v.f = "mdy" /\ v.m = 2 THEN v ELSE None
           [] shape = "mon_d_y24" -> IF v.f \in {"mdy", "mdy2"} THEN v ELSE None
           [] shape = "num4" -> IF v.f = "num4" THEN v ELSE None
           [] shape = "num24" -> IF v.f \in {"num4", "num2"} THEN v ELSE None
           [] shape = "num2" ->
                IF v.f = "num2" THEN v
                ELSE IF v.f = "num4" THEN DateStr("num2", v.m, v.d, v.y \div 100) ELSE None

\* a pattern: labs, the endings of the label it accepts ({""} accepts any line);
\* ci, re.IGNORECASE; shape, the shape of its group
Pat(labs, ci, shape) == [labs |-> labs, ci |-> ci, shape |-> shape]

LabelOK(l, labs, ci) ==
    LET lab == IF ci THEN Lower(l.label) ELSE l.label
    IN \E x \in labs : EndsWith(lab, x)

\* the least of a set of line numbers (the leftmost match), 0 when the set is empty
FirstLine(found) ==
    IF found = {} THEN 0 ELSE CHOOSE i \in found : \A j \in found : i <= j

\* \s of a group runs over the line end: after a date printed without its year, a
\* group that goes on with \s+\d{4} or \s*\d{0,4} takes the digits the next line starts
\* with; four of them are read as the year, fewer leave a string no format accepts
CaptureAt(txt, i, shape) ==
    LET least == CASE shape \in {"mon_d_y4", "mon_d_ncy4", "feb_d_y4"} -> 4
                   [] shape = "mon_d_y24" -> 2
                   [] shape = "mon_d_opt" -> 1
                   [] OTHER -> 5
        \* v the value of the line, rest the text after it, from the first character
        \* after the blanks of rest, run the digits there
        Group(v, rest, from, run) ==
            LET Val(j) == CHOOSE n \in 0..9 : DigitStr(n) = SubSeq(rest, from + j, from + j)
            IN IF /\ v.k = "date" /\ v.f = "md" /\ ~EndsWith(txt[i].label, "=")
                  /\ run >= least /\ (shape = "feb_d_y4" => v.m = 2)
               THEN IF run = 4
                    THEN DateStr("mdy", v.m, v.d, Val(0) * 1000 + Val(1) * 100 + Val(2) * 10 + Val(3))
                    ELSE DateStr("mdy2", v.m, v.d, 0)
               ELSE Capture(shape, v)
        Digits4(v, rest, from) == Group(v, rest, from, RunLen(rest, from, "d", 4))
        After(v, rest) == Digits4(v, rest, 1 + RunLen(rest, 1, "s", Len(rest)))
    IN After(txt[i].val, TailOf(txt[i]) \o "\n" \o JoinLines(SubSeq(txt, i + 1, Len(txt))))

\* re.search(pattern, text).group(1) for a date pattern, None when there is no match
\* the first result of a cascade that is not None
FirstSome(results) ==
    IF \E i \in 1..Len(results) : results[i] # None
    THEN results[CHOOSE i \in 1..Len(results) :
                    results[i] # None /\ \A j \in 1..(i - 1) : results[j] = None]
    ELSE None

\* re.search(pattern, text).group(1) for a date pattern, None when there is no match:
\* the group of the first line that matches
SearchDate(txt, pat) ==
    FirstSome([i \in 1..Len(txt) |->
                  IF LabelOK(txt[i], pat.labs, pat.ci) THEN CaptureAt(txt, i, pat.shape)
                  ELSE None])

\* x or "UNKNOWN"
OrUnknown(x) == IF x = None \/ x = Str("") THEN Str("UNKNOWN") ELSE x

\* int(s): ValueError for a digit run over CPython's limit of 4300 digits
IntRaises(v) == v.k = "int" /\ v.n > 4300

Raise(exc) == [k |-> "raise", exc |-> exc]

-----------------------------------------------------------------------------
(* extract_account_number: the digit groups of the account patterns, matched *)
(* character by character on the printed number.                            *)

RECURSIVE MatchAt(_, _, _)
\* the position after the match of items at pos, 0 when they do not match there; no
\* class of these patterns is followed by one of its own characters, so the greedy
\* match never backtracks, but for a [\d\s] run, which gives back its trailing blanks
MatchAt(s, pos, items) ==
    IF items = <<>> THEN pos
    ELSE LET Back(run) ==
                 CHOOSE b \in 0..run :
                    /\ b = run \/ SubSeq(s, pos + run - b - 1, pos + run - b - 1) \in DigitSet
                    /\ \A c \in 0..(b - 1) :
                          SubSeq(s, pos + run - c - 1, pos + run - c - 1) \notin DigitSet
             Used(it, run) == IF it.cls = "ds" THEN run - Back(run) ELSE run
             Rest(it, used) == IF used < it.lo THEN 0 ELSE MatchAt(s, pos + used, Tail(items))
             Item(it) == Rest(it, Used(it, RunLen(s, pos, it.cls, it.hi)))
         IN Item(Head(items))

\* what follows the group: "" nothing asked, "$" the end of the line, else the text
\* (lower case, re.IGNORECASE) that must follow
TailOK(tail, rest) ==
    IF tail = "$" THEN rest = "" ELSE Lower(Prefix(rest, Len(tail))) = tail

\* an account pattern: the label endings before the group ({""}: none, the group is
\* searched anywhere), the items of the group, what must follow it
AcctPat(labs, items, tail) == [labs |-> labs, items |-> items, tail |-> tail]

\* the printed number of a line and what follows it on the line
AcctOf(l) ==
    LET v == l.val
        close == IF EndsWith(l.label, "=") THEN "]" ELSE ""
    IN IF v.k = "acct" THEN [s |-> v.s, after |-> (IF v.after = "" THEN "" ELSE " " \o v.after) \o close]
       ELSE IF v.k = "row"
            THEN [s |-> v.acct, after |-> " " \o RenderDate(v.date)]
            ELSE [s |-> RenderVal(v), after |-> close]

\* group(1) of the pattern on one line, "" when the line does not match
AcctOnLine(l, pat) ==
    LET \* e[o]: the position after the items matched at o, 0 when they do not match
        From(a, e, o) == IF o = 0 THEN "" ELSE SubSeq(a.s, o, e[o] - 1)
        Ends(a, e) ==
            From(a, e, FirstLine({o \in DOMAIN e :
                    e[o] # 0 /\ TailOK(pat.tail, SubSeq(a.s, e[o], Len(a.s)) \o a.after)}))
        Number(a) ==
            Ends(a, [o \in (IF pat.labs = {""} THEN 1..Len(a.s) ELSE {1}) |->
                        MatchAt(a.s, o, pat.items)])
    IN IF LabelOK(l, pat.labs, TRUE) THEN Number(AcctOf(l)) ELSE ""

\* re.search(pattern, text, re.IGNORECASE).group(1), None when there is no match
SearchAcct(txt, pat) ==
    LET Group(s) == IF s = "" THEN None ELSE Str(s)
    IN FirstSome([lno \in 1..Len(txt) |-> Group(AcctOnLine(txt[lno], pat))])

RECURSIVE Filter(_, _, _)
\* the characters of s that are in chars (keep) or that are not (~keep)
Filter(s, chars, keep) ==
    IF s = "" THEN ""
    ELSE (IF (SubSeq(s, 1, 1) \in chars) = keep THEN SubSeq(s, 1, 1) ELSE "")
         \o Filter(SubSeq(s, 2, Len(s)), chars, keep)

\* Python: s.strip()
Strip(s) ==
    LET Last == CHOOSE i \in 1..Len(s) :
                    /\ SubSeq(s, i, i) \notin WhiteChars
                    /\ \A j \in (i + 1)..Len(s) : SubSeq(s, j, j) \in WhiteChars
        Cut(lead) == IF lead = Len(s) THEN "" ELSE SubSeq(s, lead + 1, Last)
    IN Cut(RunLen(s, 1, "s", Len(s)))

\* SMUD find_value_after_label for one label: None when the label is absent or nothing
\* but blanks follows it
ValueUntil(t, label, stop) ==
    LET Value(idx, value) == IF idx = -1 \/ value = "" THEN None ELSE Str(value)
        Until(from) == Strip(SubSeq(t, from, from + RunLen(t, from, stop, Len(t)) - 1))
        After(start) == Until(start + RunLen(t, start, ": \t", Len(t)))
        At(idx) == Value(idx, After(idx + Len(label) + 1))
    IN At(Find(Lower(t), Lower(label)))

\* the default stop_chars, "\n\t"
ValueAfterLabel(t, label) == ValueUntil(t, label, "^\n\t")

\* SMUD find_value_after_label(t, labels) with the default stop_chars
find_value_after_label(t, labels) ==
    FirstSome([i \in 1..Len(labels) |-> ValueAfterLabel(t, labels[i])])

RECURSIVE ScanDigits(_, _, _, _)
ScanDigits(t, length, i, current_digits) ==
    IF i > Len(t) THEN (IF Len(current_digits) = length THEN Str(current_digits) ELSE None)
    ELSE IF SubSeq(t, i, i) \in DigitSet
         THEN IF Len(current_digits) + 1 = length
              THEN Str(current_digits \o SubSeq(t, i, i))
              ELSE ScanDigits(t, length, i + 1, current_digits \o SubSeq(t, i, i))
         ELSE IF Len(current_digits) = length THEN Str(current_digits)
              ELSE ScanDigits(t, length, i + 1, "")

\* SMUD extract_number_sequence
extract_number_sequence(t, length) == ScanDigits(t, length, 1, "")

\* the account patterns of a parser, in the order tried
account_patterns(p) ==
    LET D(n) == It("d", n, n)
        Blanks == It("s", 0, 99)
        Blank1 == It("s", 1, 99)
        Opt == It("s", 0, 1)
        Dash == It("-", 1, 1)
        Spaced(sp) == <<D(4), sp, D(2), sp, D(3), sp, D(7)>>
        Dashed == <<D(1), Dash, D(4), Dash, D(4), Dash, D(4)>>
        AccountHash == {"account", "account#", "account #", "account:", "account#:",
                        "account #:"}
    IN CASE p = "duke" ->
              <<AcctPat({"account number", "accountnumber"}, <<D(1), It("ds", 11, 15)>>, ""),
                AcctPat({""}, <<D(4), Opt, D(4), Opt, D(4)>>, ""),
                AcctPat(AccountHash, <<It("d", 10, 14)>>, "")>>
         [] p = "spectrum" ->
              <<AcctPat({"account number", "accountnumber"}, Spaced(Blanks), ""),
                AcctPat({""}, Spaced(Blank1), ""),
                AcctPat({""}, <<D(16)>>, "")>>
         [] p = "xfinity" ->
              <<AcctPat({"account number", "accountnumber"}, Spaced(Blanks), ""),
                AcctPat({""}, Spaced(Blank1), ""),
                AcctPat({"account", "account number", "account #", "account:",
                         "accountnumber", "account#"}, <<D(16)>>, "")>>
         [] p = "wake" ->
              <<AcctPat({"account number", "accountnumber"}, <<D(10)>>, ""),
                AcctPat({""}, <<D(10)>>, "$")>>
         [] p = "enbridge" ->
              <<AcctPat({"account number"}, Dashed, ""), AcctPat({""}, Dashed, "")>>
         [] p = "durham" ->
              <<AcctPat(AccountHash, <<D(12)>>, ""),
                AcctPat({"[sys_acct_id="}, <<D(12)>>, "]"),
                AcctPat({"account number"}, <<D(12)>>, ""),
                AcctPat({""}, <<D(12)>>, " ivanov")>>
         [] p = "graham" ->
              <<AcctPat({"account", "account no", "accountno", "account:", "account no:",
                         "accountno:"}, <<D(5), Dash, D(2)>>, ""),
                AcctPat({""}, <<D(5), Dash, D(2)>>, " pin:"),
                AcctPat({""}, <<D(5), Dash, D(2)>>, "")>>
         [] p = "smud" -> <<>>

\* SMUD: the labels of the account number
smud_account_labels ==
    <<"Account Number", "Account #", "Account No", "Account:", "Acct #", "Acct:">>

\* extract_account_number of the eight parsers: None when no pattern matches
extract_account_number(p, txt) ==
    LET \* SMUD: the digits of the labelled value, else the first run of 7 digits
        Labelled(t, value, digits) ==
            IF value # None /\ Len(digits) >= 7 /\ Len(digits) <= 10 THEN Str(Prefix(digits, 10))
            ELSE extract_number_sequence(t, 7)
        Value(t, value) ==
            Labelled(t, value, Filter(IF value = None THEN "" ELSE value.s, DigitSet, TRUE))
        Smud(t) == Value(t, find_value_after_label(t, smud_account_labels))
        \* Spectrum, Xfinity: 16 digits are printed in their four groups
        Grouped(m, raw) ==
            IF Len(raw) = 16
            THEN Str(SubSeq(raw, 1, 4) \o " " \o SubSeq(raw, 5, 6) \o " " \o SubSeq(raw, 7, 9)
                     \o " " \o SubSeq(raw, 10, 16))
            ELSE Str(Strip(m.s))
        Matched(m) ==
            IF m = None THEN None
            ELSE IF p = "duke" THEN Str(Filter(m.s, WhiteChars, FALSE))
            ELSE IF p \in {"spectrum", "xfinity"} THEN Grouped(m, Filter(m.s, {" "}, FALSE))
            ELSE m
        Cascaded(pats) == Matched(FirstSome([i \in 1..Len(pats) |-> SearchAcct(txt, pats[i])]))
    IN IF p = "smud" THEN Smud(JoinLines(txt)) ELSE Cascaded(account_patterns(p))

-----------------------------------------------------------------------------
(* extract_service_address / extract_service_location.  The street of an   *)
(* address line is num and street; what a pattern swallows of the lines    *)
(* before the street number is not modelled.                               *)

RECURSIVE Upper(_)
\* Python: s.upper()
Upper(s) ==
    IF s = "" THEN ""
    ELSE LET c == SubSeq(s, 1, 1)
             up == IF \E i \in 1..26 : SubSeq(LowerChars, i, i) = c
                   THEN LET i == CHOOSE i \in 1..26 : SubSeq(LowerChars, i, i) = c
                        IN SubSeq(UpperChars, i, i)
                   ELSE c
         IN up \o Upper(SubSeq(s, 2, Len(s)))

\* an address pattern: the label endings before the street ({""}: anywhere), whether
\* a city line must follow (city), whether "STREET NAME 1553" is accepted (numlast),
\* and how the result joins street and city ("-" when it is the street alone)
AddrPat(labs, city, numlast, join) ==
    [labs |-> labs, city |-> city, numlast |-> numlast, join |-> join]

address_patterns(p) ==
    CASE p = "duke" -> <<AddrPat({""}, TRUE, FALSE, ", "), AddrPat({""}, FALSE, FALSE, "-")>>
      [] p = "spectrum" -> <<AddrPat({"service address"}, TRUE, FALSE, ", "),
                             AddrPat({"service address"}, FALSE, FALSE, "-")>>
      [] p = "xfinity" -> <<AddrPat({"for"}, TRUE, FALSE, "\n")>>
      [] p = "wake" -> <<AddrPat({"service location"}, FALSE, TRUE, "-"),
                         AddrPat({"service location"}, FALSE, FALSE, "-"),
                         AddrPat({""}, TRUE, FALSE, ", ")>>
      [] p = "enbridge" -> <<AddrPat({""}, TRUE, FALSE, "-"),
                             AddrPat({"service for kalin", "service for kalin ivanov"},
                                     FALSE, FALSE, "-")>>
      [] p = "durham" -> <<AddrPat({"service location:", "service location", "sl:"},
                                   FALSE, FALSE, "-")>>
      [] p = "graham" -> <<AddrPat({"location:"}, FALSE, FALSE, "-")>>
      [] p = "smud" -> <<>>

\* the address a pattern takes from the leftmost line it matches, None when none
SearchAddr(txt, pat) ==
    LET Ok(l) == /\ l.val.k = "addr"
                 /\ LabelOK(l, pat.labs, TRUE)
                 /\ l.val.numlast = pat.numlast
                 /\ pat.city => l.val.city # ""
        Of(a) == IF pat.join = "-" THEN Str(a.num \o " " \o a.street)
                 ELSE Str(a.num \o " " \o a.street \o pat.join \o a.city)
        At(i) == IF i = 0 THEN None ELSE Of(txt[i].val)
    IN At(FirstLine({lno \in 1..Len(txt) : Ok(txt[lno])}))

street_suffixes ==
    <<" ST", " AVE", " DR", " CT", " RD", " LN", " WAY", " BLVD", " CIR", " STREET",
      " AVENUE", " DRIVE", " COURT", " ROAD", " LANE", " CIRCLE", " PL", " PLACE", " TER",
      " TERRACE", " PKWY", " PARKWAY">>

\* SMUD extract_service_address; no line of these documents starts with a digit, so
\* the scan of the first 40 lines finds nothing, and the values are single-spaced
smud_extract_service_address(t) ==
    LET \* the value up to the end of the first suffix of the list that it holds
        Cut(value_upper, i) ==
            IF i = 0 THEN None
            ELSE Str(Prefix(value_upper,
                            Find(value_upper, street_suffixes[i]) + Len(street_suffixes[i])))
        Street(value_upper) ==
            Cut(value_upper, FirstLine({i \in 1..Len(street_suffixes) :
                                            Contains(value_upper, street_suffixes[i])}))
        Of(value) == IF value # None /\ SubSeq(value.s, 1, 1) \in DigitSet
                     THEN Street(Upper(value.s)) ELSE None
    IN Of(find_value_after_label(t, <<"Location:", "Location", "Service Address",
                                      "Service Location", "Property Address">>))

\* extract_service_address of the eight parsers: None when nothing matches; Durham's
\* [CSERVADDR=...] tag gives whatever it holds, stripped
extract_service_address(p, txt) ==
    LET Tag(l) == l.label = "[CSERVADDR=" /\ l.val # None /\ RenderVal(l.val) # ""
        Cascaded(pats) == FirstSome([j \in 1..Len(pats) |-> SearchAddr(txt, pats[j])])
        Tagged(i) == IF i # 0 THEN Str(Strip(RenderVal(txt[i].val)))
                     ELSE Cascaded(address_patterns(p))
    IN IF p = "smud" THEN smud_extract_service_address(JoinLines(txt))
       ELSE Tagged(IF p = "durham" THEN FirstLine({lno \in 1..Len(txt) : Tag(txt[lno])}) ELSE 0)

-----------------------------------------------------------------------------
(* The dates of parse_regular_bill.                                        *)

\* a period pattern: labs and ci as for a date; s and e the shapes of the two groups;
\* seps what may stand between them; tail "" when nothing is asked after the second
\* group, "n" when a digit run is, "nn" when a digit run and further numbers are
PeriodPat(labs, ci, s, seps, e, tail) ==
    [labs |-> labs, ci |-> ci, s |-> s, seps |-> seps, e |-> e, tail |-> tail]

PeriodOnLine(l, pat) ==
    LET v == l.val
    IN /\ v.k = "period"
       /\ LabelOK(l, pat.labs, pat.ci)
       /\ Capture(pat.s, v.s) = v.s
       /\ v.sep \in pat.seps
       /\ Capture(pat.e, v.e) # None
       /\ pat.tail # "" => (v.days # None /\ Capture(pat.e, v.e) = v.e)
       /\ pat.tail = "nn" => v.more

\* the two groups of the leftmost match and the digit run after them, None when
\* there is no match
SearchPeriod(txt, pat) ==
    LET Of(v) == [k |-> "match", s |-> v.s, e |-> Capture(pat.e, v.e), days |-> v.days]
        At(i) == IF i = 0 THEN None ELSE Of(txt[i].val)
    IN At(FirstLine({lno \in 1..Len(txt) : PeriodOnLine(txt[lno], pat)}))

\* the due date as first resolved, with no second look at the bill date
KeepResolved(first, again, bill_date) == first

\* due_date = parse_date(s, ref); if due_date and bill_date and due_date < bill_date:
\* due_date = parse_date(s, ref + 1)
RollForward(first, again, bill_date) ==
    IF first # None /\ bill_date # None /\ Before(first, bill_date) THEN again ELSE first

\* the period start as first resolved, with no second look at the end
KeepStart(billing_start, billing_end, earlier) == billing_start

\* Duke: if billing_start and billing_end and billing_start > billing_end:
\* billing_start = parse_date(start_str, reference_year - 1)
StartBack(billing_start, billing_end, earlier) ==
    IF billing_start # None /\ billing_end # None /\ Before(billing_end, billing_start)
    THEN earlier ELSE billing_start

\* Spectrum: if billing_start and billing_end and billing_end < billing_start:
\* billing_end = parse_date(end_str, ref_year + 1)
EndForward(billing_start, billing_end, later) ==
    IF billing_start # None /\ billing_end # None /\ Before(billing_end, billing_start)
    THEN later ELSE billing_end

\* what parse_regular_bill reads of the dates: ints are the digit runs it hands to an
\* unguarded int()
Dates(bill_date, due_date, billing_start, billing_end, ints) ==
    [bill_date |-> bill_date, due_date |-> due_date, billing_period_start |-> billing_start,
     billing_period_end |-> billing_end, ints |-> ints]

\* the captures of a list of date patterns, each searched in the whole text
Captures(txt, pats) == [i \in 1..Len(pats) |-> SearchDate(txt, pats[i])]

\* the matches of a list of period patterns, each searched in the whole text
Periods(txt, pats) == [i \in 1..Len(pats) |-> SearchPeriod(txt, pats[i])]

duke_dates(txt, now) ==
    LET \* bill date; the three due-date patterns in the order tried; "N days"
        date_patterns == <<Pat({"bill date"}, TRUE, "mon_d_y4"),
                           Pat({"total amount due"}, TRUE, "mon_d"),
                           Pat({"by"}, TRUE, "mon_d"),
                           Pat({"due"}, TRUE, "mon_d_y4"),
                           Pat({""}, TRUE, "days")>>
        period_patterns == <<PeriodPat({"for service"}, TRUE, "mon_d", {" - ", "-"}, "mon_d", ""),
                             PeriodPat({"billing period", "billing period -", "billing period-"},
                                       TRUE, "mon_d_y24", {" to "}, "mon_d_y24", "")>>
        Due(due_str, reference_year, bill_date) ==
            RollForward(duke_parse_date(due_str, reference_year),
                        duke_parse_date(due_str, reference_year + 1), bill_date)
        \* re.sub(r'(\d{1,2})\s+(\d{2})$', r'\1, 20\2', s): "Nov 26 25" -> "Nov 26, 2025"
        Sub(ds) == IF ds.f = "mdy2" THEN DateStr("mdcy", ds.m, ds.d, 2000 + ds.y) ELSE ds
        Alt(ds) == duke_parse_date(Sub(ds), NoYear)
        Span(start1, end1, m2) ==
            IF start1 = None /\ m2 # None THEN [s |-> Alt(m2.s), e |-> Alt(m2.e)]
            ELSE [s |-> start1, e |-> end1]
        Result(bill_date, due_date, per, days) ==
            Dates(bill_date, due_date, per.s, per.e, IF days = None THEN {} ELSE {days})
        Start1(m, reference_year, end1) ==
            IF m = None THEN None
            ELSE StartBack(duke_parse_date(m.s, reference_year), end1,
                           duke_parse_date(m.s, reference_year - 1))
        WithEnd(c, m, bill_date, reference_year, end1) ==
            Result(bill_date,
                   FirstSome([i \in 1..3 |-> Due(c[i + 1], reference_year, bill_date)]),
                   Span(Start1(m[1], reference_year, end1), end1, m[2]), c[5])
        WithYear(c, m, bill_date, reference_year) ==
            WithEnd(c, m, bill_date, reference_year,
                    IF m[1] = None THEN None ELSE duke_parse_date(m[1].e, reference_year))
        WithBill(c, m, bill_date) ==
            WithYear(c, m, bill_date, IF bill_date # None THEN bill_date.y ELSE now)
        Found(c, m) == WithBill(c, m, duke_parse_date(c[1], NoYear))
    IN Found(Captures(txt, date_patterns), Periods(txt, period_patterns))

\* the bill date of a header row "8349 10 012 2086755 Jan 19, 2026": the account number
\* in four blank-separated groups, then the date; None when there is no such row
RowDate(txt, shape) ==
    LET HeaderRow(l) == IF /\ l.val.k = "row"
                     /\ MatchAt(l.val.acct, 1, <<It("d", 4, 4), It("s", 1, 99), It("d", 2, 2),
                                                 It("s", 1, 99), It("d", 3, 3), It("s", 1, 99),
                                                 It("d", 7, 7)>>) = Len(l.val.acct) + 1
                  THEN Capture(shape, l.val.date) ELSE None
    IN FirstSome([lno \in 1..Len(txt) |-> HeaderRow(txt[lno])])

spectrum_dates(txt, now) ==
    LET \* the four bill-date patterns, then the two due-date patterns
        date_patterns == <<Pat({"statement date"}, TRUE, "mon_d_y4"),
                           Pat({"statement date", "statement date:"}, TRUE, "mon_d_y4"),
                           Pat({"statement date"}, TRUE, "mon_d_cy4"),
                           Pat({"service address"}, TRUE, "mon_d_cy4"),
                           Pat({"due by"}, TRUE, "mon_d"),
                           Pat({"due date", "due date:"}, TRUE, "mon_d_opt")>>
        period_labels == <<{"service from"}, {"billing period", "billing period:"}>>
        period_patterns == [i \in 1..2 |-> PeriodPat(period_labels[i], TRUE, "mon_d",
                                                     {" - ", "-"}, "mon_d", "")]
        P(ds, ref) == spectrum_parse_date(ds, ref, now)
        Due(date_str, ref_year, bill_date) ==
            RollForward(P(date_str, ref_year), P(date_str, ref_year + 1), bill_date)
        End(m, ref_year, billing_start) ==
            IF m = None THEN None
            ELSE EndForward(billing_start, P(m.e, ref_year), P(m.e, ref_year + 1))
        WithStart(c, m, bill_date, ref_year, billing_start) ==
            Dates(bill_date, FirstSome([i \in 1..2 |-> Due(c[i + 4], ref_year, bill_date)]),
                  billing_start, End(m, ref_year, billing_start), {})
        WithYear(c, m, bill_date, ref_year) ==
            WithStart(c, m, bill_date, ref_year, IF m = None THEN None ELSE P(m.s, ref_year))
        WithBill(c, m, bill_date) ==
            WithYear(c, m, bill_date, IF bill_date # None THEN bill_date.y ELSE now)
        WithListed(c, m, listed) ==
            WithBill(c, m, IF listed # None THEN listed ELSE P(RowDate(txt, "mon_d_cy4"), NoYear))
        Found(c, ms) == WithListed(c, FirstSome(ms), FirstSome([i \in 1..4 |-> P(c[i], NoYear)]))
    IN Found(Captures(txt, date_patterns), Periods(txt, period_patterns))

xfinity_dates(txt, now) ==
    LET \* the three bill-date patterns tried after the header row, then the due-date patterns
        date_patterns == <<Pat({"billing date"}, TRUE, "mon_d_y4"),
                           Pat({"bill date", "bill date:"}, TRUE, "mon_d_y4"),
                           Pat({"statement date", "statement date:"}, TRUE, "mon_d_y4"),
                           Pat({"payment", "payment on"}, TRUE, "mon_d_y4"),
                           Pat({"due by", "due date", "due date:"}, TRUE, "mon_d_opt"),
                           Pat({"please pay by"}, TRUE, "mon_d_y4")>>
        period_labels == <<{"services from"},
                           {"service from", "service from:", "service period", "service period:"},
                           {"billing period", "billing period:"}>>
        period_patterns == [i \in 1..3 |-> PeriodPat(period_labels[i], TRUE, "mon_d_y4",
                                                     {" to ", " - ", "-"}, "mon_d_y4", "")]
        P(ds, ref) == spectrum_parse_date(ds, ref, now)
        Parsed(m, ref_year) == IF m = None THEN [s |-> None, e |-> None]
                               ELSE [s |-> P(m.s, ref_year), e |-> P(m.e, ref_year)]
        Least(S) == CHOOSE j \in S : \A q \in S : j <= q
        Most(S) == CHOOSE j \in S : \A q \in S : q <= j
        \* the loop leaves the first match that parsed twice, else the last match
        Left(ps, hits, both) == IF both # {} THEN ps[Least(both)]
                                ELSE IF hits # {} THEN ps[Most(hits)]
                                ELSE [s |-> None, e |-> None]
        WithPeriod(bill_date, due_date, per) == Dates(bill_date, due_date, per.s, per.e, {})
        WithParsed(c, ms, bill_date, ref_year, ps) ==
            WithPeriod(bill_date, FirstSome([i \in 1..3 |-> P(c[i + 3], ref_year)]),
                       Left(ps, {i \in 1..3 : ms[i] # None},
                            {i \in 1..3 : ps[i].s # None /\ ps[i].e # None}))
        WithYear(c, ms, bill_date, ref_year) ==
            WithParsed(c, ms, bill_date, ref_year, [i \in 1..3 |-> Parsed(ms[i], ref_year)])
        WithBill(c, ms, bill_date) ==
            WithYear(c, ms, bill_date, IF bill_date # None THEN bill_date.y ELSE now)
        WithRow(c, ms, row) ==
            WithBill(c, ms, IF row # None THEN row ELSE FirstSome([i \in 1..3 |-> P(c[i], NoYear)]))
        Found(c, ms) == WithRow(c, ms, P(RowDate(txt, "mon_d_y4"), NoYear))
    IN Found(Captures(txt, date_patterns), Periods(txt, period_patterns))

\* Wake extract_account_bill_location: the data row "1052436902 01/09/2026 UNDERBRUSH DR
\* 1553" gives the account number and the address, number first; None without a row
wake_data_row(txt) ==
    LET Read(v) == [k |-> "row", account |-> Str(v.acct), date |-> v.date,
                    addr |-> Str(v.addr.num \o " " \o v.addr.street)]
        Data(l) == IF /\ l.val.k = "row" /\ l.val.addr # None
                      /\ MatchAt(l.val.acct, 1, <<It("d", 10, 10)>>) = Len(l.val.acct) + 1
                      /\ l.val.date.f = "num4" /\ l.val.addr.numlast
                   THEN Read(l.val) ELSE None
    IN FirstSome([lno \in 1..Len(txt) |-> Data(txt[lno])])

wake_dates(txt) ==
    LET \* bill date, then the three due-date patterns in the order tried
        date_labels == <<{"bill date"}, {"current charges due by"}, {"due by"}, {"bank drafted on"}>>
        date_patterns == [i \in 1..4 |-> Pat(date_labels[i], TRUE, "num4")]
        \* the period after FROM TO, then the period that stands alone
        period_patterns == <<PeriodPat({""}, TRUE, "num4", {" "}, "num4", "n"),
                             PeriodPat({""}, FALSE, "num4", {" "}, "num4", "nn")>>
        \* FROM\s+TO\s+.*? with re.DOTALL: the period may stand on any later line
        FromTo(l) == Contains(Lower(l.label), "from to")
        After(f) == IF f = 0 THEN None
                    ELSE SearchPeriod(SubSeq(txt, f, Len(txt)), period_patterns[1])
        Days(m) == IF m = None THEN {} ELSE {m.days}
        Span(m, alt, start1) ==
            IF start1 = None /\ alt # None
            THEN [s |-> wake_parse_date(alt.s), e |-> wake_parse_date(alt.e),
                  ints |-> Days(m) \cup {alt.days}]
            ELSE [s |-> start1, e |-> IF m = None THEN None ELSE wake_parse_date(m.e),
                  ints |-> Days(m)]
        WithPeriod(bill_date, due_date, per) == Dates(bill_date, due_date, per.s, per.e, per.ints)
        WithMatch(c, bill_date, m, alt) ==
            WithPeriod(bill_date, FirstSome([i \in 1..3 |-> wake_parse_date(c[i + 1])]),
                       Span(m, alt, IF m = None THEN None ELSE wake_parse_date(m.s)))
        WithRowDate(c, row_date) ==
            WithMatch(c, IF row_date # None THEN row_date ELSE wake_parse_date(c[1]),
                      After(FirstLine({lno \in 1..Len(txt) : FromTo(txt[lno])})),
                      SearchPeriod(txt, period_patterns[2]))
        WithRow(c, row) == WithRowDate(c, IF row = None THEN None ELSE wake_parse_date(row.date))
    IN WithRow(Captures(txt, date_patterns), wake_data_row(txt))

enbridge_dates(txt) ==
    LET \* the four bill-date patterns, then the four due-date patterns
        date_patterns == <<Pat({"january statement generated on:"}, TRUE, "mon_d_ncy4"),
                           Pat({"statement generated on:"}, TRUE, "mon_d_ncy4"),
                           Pat({"statement date"}, TRUE, "mon_d_ncy4"),
                           Pat({"statement date"}, TRUE, "mon_d_y4"),
                           Pat({"date due"}, TRUE, "mon_d_ncy4"),
                           Pat({"due date"}, TRUE, "mon_d_y4"),
                           Pat({"amount due on"}, TRUE, "num24"),
                           Pat({""}, TRUE, "feb_d_y4")>>
        period_patterns == <<PeriodPat({"BILLING PERIOD DAYS"}, FALSE, "num2", {"-"}, "num2", "n"),
                             PeriodPat({""}, FALSE, "num2", {"-"}, "num2", "nn")>>
        WithMatch(bill_date, due_date, m) ==
            Dates(bill_date, due_date,
                  IF m = None THEN None ELSE enbridge_parse_date(m.s),
                  IF m = None THEN None ELSE enbridge_parse_date(m.e), {})
        \* the bill-date loop breaks at the first pattern that matches, parsed or not
        Found(c, ms) ==
            WithMatch(enbridge_parse_date(FirstSome(SubSeq(c, 1, 4))),
                      FirstSome([i \in 1..4 |-> enbridge_parse_date(c[i + 4])]),
                      FirstSome(ms))
    IN Found(Captures(txt, date_patterns), Periods(txt, period_patterns))

durham_dates(txt) ==
    LET date_labels == <<{"[CDATE="}, {"Bill Date"}, {"[CDUEDATE="}, {"Due By"}>>
        date_patterns == [i \in 1..4 |-> Pat(date_labels[i], FALSE, "num4")]
        WithMatch(bill_date, due_date, m) ==
            Dates(bill_date, due_date,
                  IF m = None THEN None ELSE water_parse_date(m.s),
                  IF m = None THEN None ELSE water_parse_date(m.e), {})
        Found(c) ==
            WithMatch(water_parse_date(FirstSome(SubSeq(c, 1, 2))),
                      water_parse_date(FirstSome(SubSeq(c, 3, 4))),
                      SearchPeriod(txt, PeriodPat({""}, FALSE, "num4", {" "}, "num4", "nn")))
    IN Found(Captures(txt, date_patterns))

graham_dates(txt) ==
    LET date_patterns == <<Pat({"billing date:", "billingdate:"}, TRUE, "num24"),
                           Pat({"due date:", "duedate:"}, TRUE, "num24")>>
        Water(l) == l.val.k = "meter" /\ LabelOK(l, {"water"}, TRUE)
        Readings(w) == IF w = 0 THEN {} ELSE {txt[w].val.prev, txt[w].val.cur, txt[w].val.use}
        Found(c, m) ==
            Dates(water_parse_date(c[1]), water_parse_date(c[2]),
                  IF m = None THEN None ELSE water_parse_date(m.s),
                  IF m = None THEN None ELSE water_parse_date(m.e),
                  Readings(FirstLine({lno \in 1..Len(txt) : Water(txt[lno])})))
    IN Found(Captures(txt, date_patterns),
             SearchPeriod(txt, PeriodPat({"billing period:", "billingperiod:"}, TRUE, "num24",
                                         {" to ", "to"}, "num24", "")))

\* SMUD parse_date: of a string that starts with a numeric date it parses that date
smud_parse_date(v) ==
    Strptime(IF v.k = "period" /\ v.s.f \in {"num4", "num2"} THEN v.s ELSE v,
             {"%m/%d/%Y", "%m/%d/%y", "%Y-%m-%d", "%B %d, %Y", "%b %d, %Y", "%B %d %Y",
              "%b %d %Y"})

\* the value a string was printed from: what SMUD's scanner returns is the rest of a
\* line, the value of that line when the label it found ends the line's label
ValueOfText(txt, str) ==
    LET Printed(l) == IF l.val # None /\ Str(RenderVal(l.val)) = str THEN l.val ELSE None
        Or(v) == IF v = None THEN str ELSE v
    IN Or(FirstSome([lno \in 1..Len(txt) |-> Printed(txt[lno])]))

smud_dates(txt) ==
    LET \* the labels of the bill date, of the due date and of the billing period
        label_lists == <<<<"Bill Issue Date", "Bill Date", "Statement Date", "Date of Bill">>,
                         <<"Current Charges, Due", "Please pay by", "Due Date", "Payment Due",
                           "Pay by", "Due:">>,
                         <<"Bill Period", "Billing Period", "Service Period">>>>
        Values(t) == [i \in 1..3 |-> ValueOfText(txt, find_value_after_label(t, label_lists[i]))]
        \* what stands before the first "(", newline or tab after the second date
        End(v) == IF v.days = None \/ v.e.f \in {"num4", "num2"} THEN smud_parse_date(v.e)
                  ELSE None
        NoPeriod == [s |-> None, e |-> None]
        Parsed(v, seps) == IF v.k = "period" /\ v.sep \in seps
                           THEN [s |-> smud_parse_date(v.s), e |-> End(v)] ELSE NoPeriod
        From(l) == Contains(Lower(RenderLine(l)), "from ")
        FromTo(f) == IF f # 0 /\ EndsWith(Lower(txt[f].label), "from")
                     THEN Parsed(txt[f].val, {" to "}) ELSE NoPeriod
        Chosen(a, b) == IF a.s # None /\ a.e # None THEN a
                        ELSE IF b.s # None /\ b.e # None THEN b ELSE NoPeriod
        WithPeriod(v, per) ==
            Dates(smud_parse_date(v[1]), smud_parse_date(v[2]), per.s, per.e, {})
        Found(v) ==
            WithPeriod(v, Chosen(FromTo(FirstLine({lno \in 1..Len(txt) : From(txt[lno])})),
                                 Parsed(v[3], {" to ", " - ", "-"})))
    IN Found(Values(JoinLines(txt)))

-----------------------------------------------------------------------------
(* Amounts: float() and parse_amount of the eight parsers.  A float is its  *)
(* decimal digits, n / 10^e, with no trailing zero in the fraction; the     *)
(* strings here have few digits, so that the float is exact.                *)

Num(n, e) == [k |-> "num", n |-> n, e |-> e]

Zero == Num(0, 0)

RECURSIVE Normal(_)
\* the same number with the trailing zeros of its fraction dropped
Normal(x) == IF x.e > 0 /\ x.n % 10 = 0 THEN Normal(Num(x.n \div 10, x.e - 1)) ELSE x

\* -x and abs(x)
Neg(x) == Num(0 - x.n, x.e)

Abs(x) == IF x.n < 0 THEN Neg(x) ELSE x

RECURSIVE IntOf(_)
\* the value of a string of digits, 0 for ""
IntOf(s) ==
    IF s = "" THEN 0
    ELSE 10 * IntOf(SubSeq(s, 1, Len(s) - 1))
         + (CHOOSE d \in 0..9 : DigitStr(d) = SubSeq(s, Len(s), Len(s)))

\* float(s) of a string without letters or "_": blanks around, a sign, digits with at
\* most one "." among them; None stands for ValueError
FloatOf(s) ==
    LET Value(digits, scale, minus) ==
            IF digits = "" \/ \E i \in 1..Len(digits) : SubSeq(digits, i, i) \notin DigitSet
            THEN None
            ELSE IF minus THEN Neg(Normal(Num(IntOf(digits), scale)))
            ELSE Normal(Num(IntOf(digits), scale))
        \* whole and frac, the digits before and after the "."
        Split(body, dot, minus) ==
            IF dot = -1 THEN Value(body, 0, minus)
            ELSE Value(SubSeq(body, 1, dot) \o SubSeq(body, dot + 2, Len(body)),
                       Len(body) - dot - 1, minus)
        Body(body, minus) == Split(body, Find(body, "."), minus)
        Signed(t, signed) ==
            Body(IF signed THEN SubSeq(t, 2, Len(t)) ELSE t, signed /\ SubSeq(t, 1, 1) = "-")
        Stripped(t) == Signed(t, t # "" /\ SubSeq(t, 1, 1) \in {"-", "+"})
    IN Stripped(Strip(s))

\* SMUD's parse_amount: "CR", a leading "-" or a leading "(" mark a credit
smud_parse_amount(amount_str) ==
    LET Signed(value, is_credit) ==
            IF amount_str = "" \/ value = None THEN Zero
            ELSE IF is_credit /\ value.n > 0 THEN Neg(value) ELSE value
        Cleaned(cleaned) ==
            Signed(FloatOf(Strip(Filter(Remove(Remove(cleaned, "CR"), "cr"), {"(", ")"}, FALSE))),
                   \/ Contains(Upper(amount_str), "CR")
                   \/ (cleaned # "" /\ SubSeq(cleaned, 1, 1) \in {"-", "("}))
    IN Cleaned(Filter(Strip(amount_str), {"$", ","}, FALSE))

\* parse_amount: "$" and "," removed, then float(), 0.0 on ValueError
parse_amount(p, amount_str) ==
    LET Or(value) == IF amount_str = "" \/ value = None THEN Zero ELSE value
    IN IF p = "smud" THEN smud_parse_amount(amount_str)
       ELSE Or(FloatOf(Filter(Strip(amount_str), {"$", ","}, FALSE)))

\* an amount pattern: the texts one of which stands before the rest (lower case when
\* ci, re.IGNORECASE; {""}: none), the items after it, the class of the [^..]* or \s*
\* run that follows, the items between that run and the group, the group ("amt"
\* [\d,]+\.?\d*, "minus" -? before it, "signed" -?\$? before it, "dots" [\d.]+) and
\* what follows the group
\* ("" nothing asked, "$" \s*$ under re.MULTILINE: blanks up to the end of the line,
\* "]" that character)
AmtPat(labs, ci, mid, gap, pre, group, tail) ==
    [labs |-> labs, ci |-> ci, mid |-> mid, gap |-> gap, pre |-> pre, group |-> group,
     tail |-> tail]

\* a group without its fraction: ([\d,]+) in place of ([\d,]+\.?\d*)
GroupEndWhole(t, pos, group) ==
    LET n == RunLen(t, pos, "d,", Len(t))
    IN IF n = 0 THEN 0 ELSE pos + n

\* the position after the group that starts at pos, 0 when no group starts there
GroupEnd(t, pos, group) ==
    LET Ch(i) == IF i \in 1..Len(t) THEN SubSeq(t, i, i) ELSE ""
        Frac(c) == IF group = "dots" THEN c ELSE c + RunLen(t, c, "d", Len(t))
        Run(b, n) ==
            IF n = 0 THEN 0
            ELSE Frac(IF group # "dots" /\ Ch(b + n) = "." THEN b + n + 1 ELSE b + n)
        Counted(b) == Run(b, RunLen(t, b, IF group = "dots" THEN "d." ELSE "d,", Len(t)))
        Dollar(a) == Counted(IF group = "signed" /\ Ch(a) = "$" THEN a + 1 ELSE a)
    IN Dollar(IF group \in {"signed", "minus"} /\ Ch(pos) = "-" THEN pos + 1 ELSE pos)

\* the match of the rest of a pattern from pos, the position after its label: [from, to)
\* is the group, <<0, 0>> no match; the run of the gap class is greedy and gives back
\* characters until the rest matches
AmtAt(t, pos, pat) ==
    LET EndOfLine(r) == r > Len(t) \/ SubSeq(t, r, r) = "\n"
        Follows(e) ==
            CASE pat.tail = "" -> TRUE
              [] pat.tail = "$" -> EndOfLine(e + RunLen(t, e, " ", Len(t)))
              [] OTHER -> e <= Len(t) /\ SubSeq(t, e, e) = pat.tail
        Group(from, to) == IF to # 0 /\ Follows(to) THEN <<from, to>> ELSE <<0, 0>>
        From(from) == IF from = 0 THEN <<0, 0>> ELSE Group(from, GroupEnd(t, from, pat.group))
        Longest(tries, gaps) ==
            IF gaps = {} THEN <<0, 0>> ELSE tries[CHOOSE x \in gaps : \A y \in gaps : y <= x]
        Tries(tries) == Longest(tries, {g \in DOMAIN tries : tries[g][1] # 0})
        Mid(m) ==
            IF m = 0 THEN <<0, 0>>
            ELSE Tries([g \in 0..RunLen(t, m, pat.gap, Len(t)) |->
                            From(MatchAt(t, m + g, pat.pre))])
    IN Mid(MatchAt(t, pos, pat.mid))

\* re.search(pattern, text).group(1) for an amount pattern, None when there is no match
SearchAmt(t, pat) ==
    LET First(ms, hits) ==
            IF hits = {} THEN <<0, 0>> ELSE ms[CHOOSE x \in hits : \A y \in hits : x <= y]
        Hits(ms) == First(ms, {i \in DOMAIN ms : ms[i][1] # 0})
        Text(m) == IF m[1] = 0 THEN None ELSE Str(SubSeq(t, m[1], m[2] - 1))
        Best(found) == IF \E m \in found : m[1] # 0 THEN CHOOSE m \in found : m[1] # 0
                       ELSE <<0, 0>>
        Cased(str) == IF pat.ci THEN Lower(str) ELSE str
        Labelled(i, lab) ==
            i + Len(lab) - 1 <= Len(t) /\ Cased(SubSeq(t, i, i + Len(lab) - 1)) = lab
    IN Text(Hits([i \in 1..Len(t) |->
                     Best({IF Labelled(i, lab) THEN AmtAt(t, i + Len(lab), pat) ELSE <<0, 0>> :
                           lab \in pat.labs})]))

RECURSIVE Cascade(_, _, _, _, _, _)
\* for pattern in patterns: on a match the amount (its abs() when absolute) is
\* assigned; the loop breaks on a match, or only on an amount > 0 when positive
Cascade(p, t, patterns, positive, absolute, amount) ==
    LET Value(x) == IF absolute THEN Abs(x) ELSE x
        Found(m) == IF m = None THEN amount ELSE Value(parse_amount(p, m.s))
        Step(m, found) ==
            IF m = None \/ (positive /\ found.n <= 0)
            THEN Cascade(p, t, Tail(patterns), positive, absolute, found)
            ELSE found
        Match(m) == Step(m, Found(m))
    IN IF patterns = <<>> THEN amount ELSE Match(SearchAmt(t, Head(patterns)))

\* amount_patterns of parse_regular_bill (Durham: the pattern and the balance tag)
amount_patterns(p) ==
    LET Dollar == <<It("$", 0, 1)>>
        Lab(labs, ci) == AmtPat(labs, ci, <<>>, "s", Dollar, "amt", "")
        ByDate(lab) == AmtPat({lab}, TRUE,
                              <<It("s", 1, 99), It("d", 2, 2), It("/", 1, 1), It("d", 2, 2),
                                It("/", 1, 1), It("d", 4, 4), It("s", 1, 99)>>,
                              "", <<>>, "amt", "")
    IN CASE p = "duke" ->
              <<AmtPat({"total amount due"}, TRUE, <<>>, "^$", <<It("$", 1, 1), It("s", 0, 99)>>,
                       "amt", ""),
                AmtPat({""}, TRUE, <<>>, "", <<It("$", 1, 1), It("s", 0, 99)>>, "amt", "$")>>
         [] p = "durham" ->
              <<Lab({"Total Amount Due"}, FALSE),
                AmtPat({"[Sys_Balance="}, FALSE, <<>>, "", <<>>, "dots", "]")>>
         [] p = "enbridge" ->
              <<Lab({"amount due"}, TRUE),
                AmtPat({"amount due"}, TRUE, <<>>, "^$", Dollar, "amt", ""),
                Lab({"total current charges"}, TRUE)>>
         [] p = "graham" ->
              <<Lab({"total due:"}, TRUE), AmtPat({"amount due"}, TRUE, <<>>, ":s", Dollar, "amt", "")>>
         [] p = "spectrum" ->
              <<Lab({"amount due"}, TRUE), Lab({"auto pay amount"}, TRUE),
                Lab({"total amount due"}, TRUE)>>
         [] p = "wake" -> <<ByDate("current charges due by"), ByDate("bank drafted on")>>
         [] p = "xfinity" ->
              <<Lab({"amount due"}, TRUE), Lab({"please pay"}, TRUE), Lab({"new charges"}, TRUE),
                Lab({"total amount due"}, TRUE)>>
         [] p = "smud" -> <<>>

\* the patterns of payments_received (Durham and Graham read none)
payment_patterns(p) ==
    LET Received(group) ==
            AmtPat({"payment received", "payments received"}, TRUE, <<>>, "^-d", <<>>, group, "")
    IN CASE p = "duke" ->
              <<AmtPat({"payment received"}, TRUE, <<>>, "^$-",
                       <<It("-$", 0, 1), It("s", 0, 99)>>, "amt", "")>>
         [] p = "enbridge" ->
              <<AmtPat({"payment received"}, TRUE, <<>>, "^-d", <<>>, "minus", "")>>
         [] p = "spectrum" ->
              <<AmtPat({"payment"}, TRUE, <<>>, "^-d", <<>>, "signed", ""), Received("signed")>>
         [] p = "wake" ->
              <<AmtPat({"payment thank you"}, TRUE, <<It("s", 1, 99)>>, "", <<It("-", 0, 1)>>,
                       "amt", "")>>
         [] p = "xfinity" ->
              <<AmtPat({"eft payment - thank you"}, TRUE,
                       <<It("s", 1, 99), It("alpha", 1, 99), It("s", 1, 99), It("d", 1, 99),
                         It("s", 1, 99)>>, "", <<>>, "signed", ""),
                AmtPat({"payment"}, TRUE, <<>>, "^$\n", <<It("-", 1, 1), It("$", 0, 1)>>,
                       "amt", ""),
                Received("signed")>>
         [] OTHER -> <<>>

\* SMUD extract_amount_after_label
extract_amount_after_label(t, labels) ==
    LET Amount(value) == IF value = None THEN Zero ELSE smud_parse_amount(value.s)
    IN Amount(FirstSome([i \in 1..Len(labels) |-> ValueUntil(t, labels[i], "^\n\t)")]))

\* the amounts of parse_regular_bill: amount_due, payments_received (the six parsers
\* that read it) and SMUD's previous_balance, electric_charges and taxes; the other
\* charges and the usage are not part of this model
amounts(p, t) ==
    LET smud_labels ==
            [amount_due |-> <<"Amount Due", "Total Amount Due", "Total Due", "Current Balance",
                              "Please Pay">>,
             previous_balance |-> <<"Previous Balance", "Previous Amount">>,
             payments_received |-> <<"Payments Received", "Payment Received", "Payments:">>,
             electric_charges |-> <<"Electric Charges", "Current Charges", "Charges:">>,
             taxes |-> <<"Taxes", "Tax", "Fees">>]
        \* the loops of amount_due and of payments_received
        loops == <<[patterns |-> amount_patterns(p), positive |-> p \in {"duke", "wake", "xfinity"},
                    absolute |-> FALSE],
                   [patterns |-> payment_patterns(p), positive |-> p = "xfinity",
                    absolute |-> p \in {"enbridge", "spectrum", "xfinity"}]>>
        Read(found) == IF p \in {"durham", "graham"} THEN [amount_due |-> found[1]]
                       ELSE [amount_due |-> found[1], payments_received |-> found[2]]
    IN IF p = "smud"
       THEN [f \in DOMAIN smud_labels |-> extract_amount_after_label(t, smud_labels[f])]
       ELSE Read([i \in 1..2 |-> Cascade(p, t, loops[i].patterns, loops[i].positive,
                                         loops[i].absolute, Zero)])

-----------------------------------------------------------------------------
(* The records and parse_pdf.                                              *)

\* the bill/notice data class; service_address is Durham's and Graham's
\* service_location; a bill record is given its amounts by parse_regular_bill
Record(document_type, account_number, service_address, d, requires_attention, attention_reason, raw_text) ==
    [k |-> "record", document_type |-> document_type, account_number |-> account_number,
     service_address |-> service_address, bill_date |-> d.bill_date, due_date |-> d.due_date,
     billing_period_start |-> d.billing_period_start,
     billing_period_end |-> d.billing_period_end, requires_attention |-> requires_attention,
     attention_reason |-> attention_reason, raw_text |-> raw_text]

\* bill_date, due_date and the billing period of a record that is given none
NoDates == Dates(None, None, None, None, {})

dates(p, txt, now) ==
    CASE p = "duke" -> duke_dates(txt, now)
      [] p = "spectrum" -> spectrum_dates(txt, now)
      [] p = "xfinity" -> xfinity_dates(txt, now)
      [] p = "wake" -> wake_dates(txt)
      [] p = "enbridge" -> enbridge_dates(txt)
      [] p = "durham" -> durham_dates(txt)
      [] p = "graham" -> graham_dates(txt)
      [] p = "smud" -> smud_dates(txt)

\* parse_regular_bill: the record, or the ValueError of an int() outside try
parse_regular_bill(p, txt, now) ==
    LET Bill(d, row, account_number, service_address, read, full_text) ==
            IF \E v \in d.ints : IntRaises(v) THEN Raise("ValueError")
            ELSE read @@ Record("bill",
                                IF row # None THEN row.account ELSE OrUnknown(account_number),
                                IF row # None THEN row.addr ELSE OrUnknown(service_address),
                                d, FALSE, None, Str(Prefix(full_text, 500)))
    IN Bill(dates(p, txt, now), IF p = "wake" THEN wake_data_row(txt) ELSE None,
            extract_account_number(p, txt), extract_service_address(p, txt),
            amounts(p, JoinLines(txt)), JoinLines(txt))

attention_reasons(p) ==
    CASE p \in {"duke", "wake"} -> "DISCONNECT NOTICE - Service disconnection pending"
      [] p \in {"spectrum", "xfinity"} ->
            "DISCONNECT NOTICE - Internet service disconnection pending"
      [] p = "enbridge" -> "DISCONNECT NOTICE - Gas service disconnection pending"
      [] p = "smud" -> "DISCONNECT NOTICE - Immediate payment required"
      [] p = "durham" -> "DELINQUENCY NOTICE - Water shutoff pending"
      [] p = "graham" -> "DELINQUENCY NOTICE - Service disconnection pending"

\* parse_disconnect_notice / parse_delinquency_notice
\* the record of a notice parser: it is given no billing period; the searches for its
\* disconnect date, last day to pay and notice date are not part of this model, and the
\* record here has no bill_date and no due_date field
NoticeRecord(p, txt, requires_attention, attention_reason) ==
    [k |-> "record", document_type |-> NoticeType(p),
     account_number |-> OrUnknown(extract_account_number(p, txt)),
     service_address |-> OrUnknown(extract_service_address(p, txt)),
     billing_period_start |-> None, billing_period_end |-> None,
     requires_attention |-> requires_attention, attention_reason |-> attention_reason,
     raw_text |-> Str(Prefix(JoinLines(txt), 500))]

\* a notice record left with the dataclass defaults of its attention fields
parse_disconnect_notice_unflagged(p, txt) == NoticeRecord(p, txt, FALSE, None)

\* parse_disconnect_notice, and parse_delinquency_notice of Durham and Graham
parse_disconnect_notice(p, txt) == NoticeRecord(p, txt, TRUE, Str(attention_reasons(p)))

\* parse_pdf without its `if not full_text.strip()` branch
parse_pdf_unchecked(p, exists, txt, now) ==
    LET full_text == JoinLines(txt)
        doc_type == detect_document_type(p, full_text)
    IN IF ~exists THEN Raise("FileNotFoundError")
       ELSE IF doc_type = NoticeType(p) THEN parse_disconnect_notice(p, txt)
       ELSE IF doc_type = "bill" THEN parse_regular_bill(p, txt, now)
       ELSE Record("unknown", OrUnknown(extract_account_number(p, txt)),
                   OrUnknown(extract_service_address(p, txt)), NoDates, TRUE,
                   Str("Unknown document type - manual review required"),
                   Str(Prefix(full_text, 500)))

\* parse_pdf(pdf_path): exists is path.exists(), txt the lines pdfplumber extracts,
\* now datetime.now().year
parse_pdf(p, exists, txt, now) ==
    LET full_text == JoinLines(txt)
        doc_type == detect_document_type(p, full_text)
    IN IF ~exists THEN Raise("FileNotFoundError")
       ELSE IF IsBlank(full_text)
            THEN Record("unknown", Str("UNKNOWN"), Str("UNKNOWN"), NoDates, TRUE,
                        Str("Could not extract text from PDF"), Str(""))
       ELSE IF doc_type = NoticeType(p) THEN parse_disconnect_notice(p, txt)
       ELSE IF doc_type = "bill" THEN parse_regular_bill(p, txt, now)
       ELSE Record("unknown", OrUnknown(extract_account_number(p, txt)),
                   OrUnknown(extract_service_address(p, txt)), NoDates, TRUE,
                   Str("Unknown document type - manual review required"),
                   Str(Prefix(full_text, 500)))

-----------------------------------------------------------------------------
(* The state machine.  pc: "start" before the call, "detected" after       *)
(* detect_document_type returned, "done" after parse_pdf returned a        *)
(* record, "raised" after parse_pdf raised.                                *)

Line(l) == [label |-> l, val |-> None]

\* phrases a document of the provider prints, in the case the document prints them
ClassPhrases(p) ==
    CASE p = "duke" -> {"FINAL NOTICE - Past Due", "Disconnect Date", "Duke Energy Billing Summary",
                        "Total Amount Due", "Your Energy Bill", "Thank you"}
      [] p = "durham" -> {"Water Shutoff - past due", "Disconnect Date",
                          "City of Durham Utility Bill - Consumption History",
                          "Balance Forward", "Meter Number", "Thank you"}
      [] p = "enbridge" -> {"FINAL NOTICE - Past Due", "Disconnect Notice",
                            "Enbridge Gas Account Summary", "Billing Period", "Amount Due",
                            "Thank you"}
      [] p = "graham" -> {"FINAL NOTICE - Past Due", "Water Shutoff", "City of Graham Payment Coupon",
                          "Billing Period", "Amount Due", "Thank you"}
      [] p = "smud" -> {"FINAL NOTICE", "Past Due", "SMUD Billing Statement", "Amount Due",
                        "Usage Summary", "Thank you"}
      [] p = "spectrum" -> {"FINAL NOTICE - Past Due", "Collection Agency", "Spectrum Internet",
                            "Amount Due", "Statement Date", "Thank you"}
      [] p = "xfinity" -> {"FINAL NOTICE - Past Due", "Suspension Notice",
                           "Thank you for choosing Xfinity", "Amount Due", "Billing Date",
                           "Thank you"}
      [] p = "wake" -> {"DISCONNECTION NOTICE", "AMOUNT PAST DUE", "Scheduled for disconnection",
                        "If your bill shows a disconnect notice", "BILL TYPE NORMAL",
                        "Energy Used", "Meter Reading - Residential", "Thank you"}

MaxPhrases == 3

SeqsUpTo(S, n) == UNION {[1..k -> S] : k \in 0..n}

ClassTexts(p) == SeqsUpTo({Line(l) : l \in ClassPhrases(p)}, MaxPhrases)

InitClassify ==
    /\ provider \in Providers
    /\ text \in ClassTexts(provider)
    /\ file_exists = TRUE
    /\ now_year = 2026
    /\ pc = "start"
    /\ detected = "none"
    /\ record = None
    /\ error = "none"
    /\ files = <<>>
    /\ clock = 1
    /\ call = None
    /\ returned = None

\* a call of detect_document_type(text)
DetectDocumentType ==
    /\ pc = "start"
    /\ detected' = detect_document_type(provider, JoinLines(text))
    /\ pc' = "detected"
    /\ UNCHANGED <<provider, file_exists, text, now_year, record, error, files, clock, call, returned>>

SpecClassify == InitClassify /\ [][DetectDocumentType]_vars

-----------------------------------------------------------------------------
(* Documents for parse_pdf: a heading line that settles the class, then up *)
(* to MaxFields field lines.  Every line but a data row starts with its    *)
(* label, so no pattern runs from one line's digits into the next line.    *)

\* the headings: of a bill, of a notice, blank, none
Headers(p) ==
    LET bill == CASE p = "duke" -> "Duke Energy Billing Summary"
                  [] p = "wake" -> "BILL TYPE NORMAL"
                  [] p = "enbridge" -> "Enbridge Gas Account Summary - Therms"
                  [] p = "spectrum" -> "Spectrum Internet Billing"
                  [] p = "xfinity" -> "Xfinity Comcast - Your bill at a glance"
                  [] p = "durham" -> "City of Durham Utility Bill - Consumption History"
                  [] p = "graham" -> "City of Graham Payment Coupon"
                  [] p = "smud" -> "SMUD Billing Statement"
        notice == CASE p = "wake" -> "DISCONNECTION NOTICE - AMOUNT PAST DUE"
                    [] p = "durham" -> "Water Shutoff - past due"
                    [] OTHER -> "FINAL NOTICE - Past Due"
    IN {<<Line(bill)>>, <<Line(notice)>>, <<Line("  ")>>, <<>>}

\* the field lines a document of the provider may print
FieldLines(p) ==
    LET L(l, v) == [label |-> l, val |-> v]
        md(m, d) == DateStr("md", m, d, 0)
        cy(m, d, y) == DateStr("mdcy", m, d, y)
        n4(m, d, y) == DateStr("num4", m, d, y)
        n2(m, d, y) == DateStr("num2", m, d, y)
        home == Addr("1553", "UNDERBRUSH DR", FALSE, "DURHAM NC 27703")
        street == Addr("1553", "UNDERBRUSH DR", FALSE, "")
        long == Digits(7, 4301, "")
        P(a, sep, b) == Period(a, sep, b, None, FALSE)
        R(a, sep, b, days) == Period(a, sep, b, days, TRUE)
    IN CASE p = "duke" ->
              {L("Account number", Acct("9101 7650 0588", "")), L("Account #", Acct("12345", "")),
               L("Service address", home), L("Bill date", cy(12, 20, 2025)),
               L("Bill date", cy(3, 15, 2024)), L("Total Amount Due", md(1, 5)),
               L("Total Amount Due", md(2, 29)), L("Payment Due", cy(1, 5, 2024)),
               L("For service", P(md(12, 26), " - ", md(1, 25))),
               L("For service", P(md(11, 26), " - ", md(12, 29))),
               L("For service", P(md(2, 29), " - ", md(1, 25))),
               L("Billing Period", P(DateStr("mdy2", 11, 26, 25), " to ",
                                     DateStr("mdy2", 12, 29, 25))),
               L("Billing", Digits(34, 2, "days")), L("Billing", Digits(7, 4301, "days"))}
         [] p = "spectrum" ->
              {L("Account Number", Acct("8349 10 012 2086755", "")),
               L("Ref", Acct("8349100122086755", "")), L("Service Address", home),
               L("Statement Date", cy(12, 20, 2025)), L("Statement Date", cy(3, 15, 2024)),
               L("Due by", md(1, 5)), L("Due by", md(2, 29)), L("Due Date:", cy(1, 5, 2024)),
               L("Service from", P(md(12, 26), " - ", md(1, 25))),
               L("Service from", P(md(11, 26), " - ", md(12, 29))),
               L("Billing Period:", P(md(2, 29), " - ", md(1, 25))),
               L("", Row("8349 10 012 2086755", cy(12, 20, 2025), None))}
         [] p = "xfinity" ->
              {L("Account Number", Acct("8155 60 082 0617408", "")),
               L("Account #", Acct("8155600820617408", "")), L("For", home),
               L("Billing Date", cy(12, 20, 2025)), L("Bill Date:", cy(3, 15, 2024)),
               L("Due by", md(1, 5)), L("Due Date:", md(2, 29)),
               L("Automatic payment on", cy(1, 5, 2024)), L("Please pay by", cy(1, 28, 2026)),
               L("Service period:", P(cy(12, 26, 2025), " to ", cy(1, 25, 2026))),
               L("Billing Period:", P(cy(1, 25, 2026), " - ", cy(12, 26, 2025))),
               L("", Row("8155 60 082 0617408", cy(1, 5, 2026), None))}
         [] p = "wake" ->
              {L("", Row("1052436902", n4(1, 9, 2026), Addr("1553", "UNDERBRUSH DR", TRUE, ""))),
               L("ACCOUNT NUMBER", Acct("1052436902", "")), L("Ref", Acct("12345", "")),
               L("SERVICE LOCATION", Addr("1553", "UNDERBRUSH DR", TRUE, "")),
               L("Mail to", home), L("BILL DATE", n4(12, 20, 2025)),
               L("CURRENT CHARGES DUE BY", n4(1, 5, 2026)), L("DUE BY", n4(1, 5, 2024)),
               L("FROM TO DAYS", R(n4(12, 5, 2025), " ", n4(1, 5, 2026), Digits(31, 2, ""))),
               L("FROM TO DAYS", R(n4(1, 5, 2026), " ", n4(12, 5, 2025), Digits(31, 2, ""))),
               L("FROM TO DAYS", R(n4(12, 5, 2025), " ", n4(1, 5, 2026), long)),
               L("Read", R(n4(2, 29, 2025), " ", n4(3, 29, 2025), Digits(28, 2, "")))}
         [] p = "enbridge" ->
              {L("ACCOUNT NUMBER", Acct("7-2101-4365-2043", "")), L("Ref", Acct("12345", "")),
               L("Mail to", home), L("SERVICE FOR KALIN IVANOV", street),
               L("STATEMENT DATE", DateStr("mdy", 12, 20, 2025)),
               L("Statement Date", cy(12, 20, 2025)),
               L("DATE DUE", DateStr("mdy", 1, 5, 2026)), L("Due Date", cy(1, 5, 2024)),
               L("Amount Due on", n2(1, 5, 26)), L("Paid", DateStr("mdy", 2, 4, 2025)),
               L("BILLING PERIOD DAYS", R(n2(12, 8, 25), "-", n2(1, 8, 26), Digits(31, 2, ""))),
               L("Read", R(n2(1, 8, 26), "-", n2(12, 8, 25), long))}
         [] p = "durham" ->
              {L("Account #", Acct("123456789012", "")), L("[Sys_Acct_ID=", Acct("123456789012", "")),
               L("Ref", Acct("12345", "")), L("[CSERVADDR=", street), L("[CSERVADDR=", Str(" ")),
               L("Service Location:", street), L("[CDATE=", n4(12, 20, 2025)),
               L("Bill Date", n4(3, 15, 2024)), L("[CDUEDATE=", n4(1, 5, 2026)),
               L("Due By", n4(1, 5, 2024)),
               L("Read", R(n4(12, 8, 2025), " ", n4(1, 6, 2026), Digits(29, 2, ""))),
               L("Read", R(n4(1, 6, 2026), " ", n4(12, 8, 2025), long))}
         [] p = "graham" ->
              {L("ACCOUNT NO:", Acct("50530-17", "")), L("Ref", Acct("50530-17", "PIN: 4788")),
               L("Ref", Acct("12345", "")), L("LOCATION:", street),
               L("BILLING DATE:", n2(12, 20, 25)), L("DUE DATE:", n2(1, 5, 26)),
               L("DUE DATE:", n4(1, 5, 2024)),
               L("BILLING PERIOD:", P(n2(12, 14, 25), " to ", n2(1, 14, 26))),
               L("BILLING PERIOD:", P(n2(1, 14, 26), " to ", n2(12, 14, 25))),
               L("WATER", Meter(n2(12, 14, 25), Digits(87236, 5, ""), n2(1, 14, 26),
                                Digits(91883, 5, ""), Digits(4647, 4, ""))),
               L("WATER", Meter(n2(12, 14, 25), Digits(87236, 5, ""), n2(1, 14, 26), long,
                                Digits(4647, 4, "")))}
         [] p = "smud" ->
              {L("Account Number:", Acct("1234567", "")), L("Ref", Acct("123456789", "")),
               L("Account Number:", Acct("12345", "")), L("Location:", street),
               L("Bill Issue Date:", n4(12, 20, 2025)), L("Current Charges, Due", n2(1, 5, 26)),
               L("Please pay by", n4(1, 5, 2024)),
               L("Bill Period:", P(n4(12, 5, 2025), " - ", n4(1, 5, 2026))),
               L("Service from", P(n4(12, 5, 2025), " to ", n4(1, 5, 2026))),
               L("Bill Period:", P(n4(1, 5, 2026), " - ", n4(12, 5, 2025))),
               L("Billing", Digits(33, 2, "days"))}

MaxFields == 2

\* datetime.now().year of the run
Years == {2025, 2026}

ParseTexts(p) == {h \o b : h \in Headers(p), b \in SeqsUpTo(FieldLines(p), MaxFields)}

InitParse ==
    /\ provider \in Providers
    /\ file_exists \in BOOLEAN
    /\ text \in (IF file_exists THEN ParseTexts(provider) ELSE {<<>>})
    /\ now_year \in Years
    /\ pc = "start"
    /\ detected = "none"
    /\ record = None
    /\ error = "none"
    /\ files = <<>>
    /\ clock = 1
    /\ call = None
    /\ returned = None

\* a call of parse_pdf(pdf_path): it returns a record or raises
ParsePdf ==
    /\ pc = "start"
    /\ LET Returned(r) == /\ r.k = "record"
                          /\ record' = r
                          /\ pc' = "done"
                          /\ UNCHANGED error
           Raised(r) == /\ r.k = "raise"
                        /\ error' = r.exc
                        /\ pc' = "raised"
                        /\ UNCHANGED record
           Call(r) == Returned(r) \/ Raised(r)
       IN Call(parse_pdf(provider, file_exists, text, now_year))
    /\ UNCHANGED <<provider, file_exists, text, now_year, detected, files, clock, call, returned>>

SpecParse == InitParse /\ [][ParsePdf]_vars

-----------------------------------------------------------------------------
(* C1 *)

\* the number of indicators of a list that occur in the text, whatever the case
Occurring(inds, t) ==
    LET tl == Lower(t)
    IN Cardinality({i \in 1..Len(inds) : Contains(tl, inds[i])})

NoticeCount(p, t) == Occurring(disconnect_indicators(p), t)
BillCount(p, t) == Occurring(bill_indicators(p), t)

ClaimThreshold(p) ==
    CASE p \in {"duke", "durham", "graham", "smud", "wake"} -> 2
      [] p \in {"enbridge", "spectrum", "xfinity"} -> 3

TwoBucketRule(p, t) ==
    LET n == NoticeCount(p, t)
        b == BillCount(p, t)
    IN CASE n >= 2 -> NoticeType(p)
         [] n < 2 /\ b >= ClaimThreshold(p) -> "bill"
         [] OTHER -> "unknown"

\* C1 as stated: every provider's detect_document_type follows the two-bucket rule
\* (notice if >= 2 notice indicators, else Bill if >= threshold bill indicators, else Unknown).
C1_TwoBucketAllProviders ==
    pc = "detected" => detected = TwoBucketRule(provider, JoinLines(text))

-----------------------------------------------------------------------------
(* parse_pdf: errors, blank text, attention flags, sentinels.              *)

Returned == pc = "done"

Sentinel == Str("UNKNOWN")

\* C2 as stated: parse_pdf raises only FileNotFoundError, and only for a path that does
\* not exist; for an existing file it returns a record whatever the text.
C2_OnlyFileNotFound ==
    /\ pc = "raised" => ~file_exists /\ error = "FileNotFoundError"
    /\ pc \in {"done", "raised"} /\ file_exists => pc = "done" /\ record.k = "record"

\* C3: for an existing file whose text is empty or whitespace-only, parse_pdf returns the
\* Unknown record with both sentinels, requires_attention, the reason of the blank branch
\* and an empty raw_text (the raw_text and the reason of the classified path differ).
C3_BlankTextUnknown ==
    pc \in {"done", "raised"} /\ file_exists /\ IsBlank(JoinLines(text)) =>
        /\ pc = "done"
        /\ record.document_type = "unknown"
        /\ record.account_number = Sentinel
        /\ record.service_address = Sentinel
        /\ record.requires_attention = TRUE
        /\ record.attention_reason # None
        /\ record.attention_reason = Str("Could not extract text from PDF")
        /\ record.raw_text = Str("")

C3_Witness ==
    /\ Returned
    /\ text = <<Line("  ")>>
    /\ record.document_type = "unknown"
    /\ record.raw_text = Str("")

\* C4 as stated: a Bill record that carries the "UNKNOWN" sentinel for its account number
\* or its service location has requires_attention and a reason.
C4_UnknownFieldFlagged ==
    Returned /\ record.document_type = "bill"
             /\ (record.account_number = Sentinel \/ record.service_address = Sentinel) =>
        record.requires_attention = TRUE /\ record.attention_reason # None

\* C5: a returned record that is a notice (disconnect or delinquency) or Unknown has
\* requires_attention and a non-null reason.
C5_NoticeOrUnknownFlagged ==
    Returned /\ record.document_type \in {"disconnect_notice", "delinquency_notice", "unknown"} =>
        record.requires_attention = TRUE /\ record.attention_reason # None

C5_Witness ==
    /\ Returned
    /\ provider = "durham"
    /\ record.document_type = "delinquency_notice"
    /\ record.account_number = Str("123456789012")
    /\ record.requires_attention = TRUE

\* some account strategy matches the text (a Wake bill also reads its data row)
AccountMatched ==
    \/ extract_account_number(provider, text) # None
    \/ provider = "wake" /\ record.document_type = "bill" /\ wake_data_row(text) # None

\* some address strategy matches the text: Durham's tag holds at least one character, or
\* a labelled pattern finds a street
AddressMatched ==
    \/ IF provider = "durham"
       THEN \/ \E i \in 1..Len(text) : /\ text[i].label = "[CSERVADDR="
                                       /\ RenderVal(text[i].val) # ""
            \/ \E j \in 1..Len(address_patterns(provider)) :
                  SearchAddr(text, address_patterns(provider)[j]) # None
       ELSE extract_service_address(provider, text) # None
    \/ provider = "wake" /\ record.document_type = "bill" /\ wake_data_row(text) # None

\* C6 as stated: in every record account_number and the service address are non-empty
\* strings, the sentinel exactly when no extraction strategy matched.
C6_SentinelIffNoMatch ==
    Returned =>
        /\ record.account_number.k = "str" /\ record.account_number.s # ""
        /\ record.service_address.k = "str" /\ record.service_address.s # ""
        /\ record.account_number = Sentinel <=> ~AccountMatched
        /\ record.service_address = Sentinel <=> ~AddressMatched

-----------------------------------------------------------------------------
(* The order of the dates of a record.                                     *)

BillReturned == Returned /\ record.document_type = "bill"

\* C7 as stated: in a Bill record with both dates, due_date >= bill_date.
C7_DueNotBeforeBill ==
    BillReturned /\ record.bill_date # None /\ record.due_date # None =>
        ~Before(record.due_date, record.bill_date)

\* C8 as stated: in a record with both ends of the billing period, start <= end.
C8_StartNotAfterEnd ==
    Returned /\ record.billing_period_start # None /\ record.billing_period_end # None =>
        ~Before(record.billing_period_end, record.billing_period_start)

\* the month and day of the due date the Duke and Spectrum parsers read first
YearlessDue ==
    IF provider = "duke"
    THEN FirstSome(<<SearchDate(text, Pat({"total amount due"}, TRUE, "mon_d")),
                     SearchDate(text, Pat({"by"}, TRUE, "mon_d"))>>)
    ELSE SearchDate(text, Pat({"due by"}, TRUE, "mon_d"))

\* a Duke or Spectrum bill with a bill date whose year-less due date exists in the bill
\* date's year
DueResolved ==
    /\ BillReturned
    /\ provider \in {"duke", "spectrum"}
    /\ record.bill_date # None
    /\ YearlessDue # None
    /\ MakeDate(record.bill_date.y, YearlessDue.m, YearlessDue.d) # None

YearlessPeriod ==
    LET Per(labs) == SearchPeriod(text, PeriodPat(labs, TRUE, "mon_d", {" - ", "-"}, "mon_d", ""))
    IN IF provider = "duke" THEN Per({"for service"})
       ELSE FirstSome(<<Per({"service from"}), Per({"billing period", "billing period:"})>>)

ReferenceYear == IF record.bill_date # None THEN record.bill_date.y ELSE now_year

\* a Duke or Spectrum bill whose year-less period, both ends resolved in the reference
\* year, starts after it ends
PeriodReversed ==
    /\ BillReturned
    /\ provider \in {"duke", "spectrum"}
    /\ YearlessPeriod # None
    /\ MakeDate(ReferenceYear, YearlessPeriod.s.m, YearlessPeriod.s.d) # None
    /\ MakeDate(ReferenceYear, YearlessPeriod.e.m, YearlessPeriod.e.d) # None
    /\ Before(MakeDate(ReferenceYear, YearlessPeriod.e.m, YearlessPeriod.e.d),
              MakeDate(ReferenceYear, YearlessPeriod.s.m, YearlessPeriod.s.d))

\* C10 as stated: in both parsers the start is recomputed in reference_year - 1 and the
\* end stays in the reference year.
C10_StartMovedBack ==
    PeriodReversed =>
        /\ record.billing_period_start =
              Date(ReferenceYear - 1, YearlessPeriod.s.m, YearlessPeriod.s.d)
        /\ record.billing_period_end =
              MakeDate(ReferenceYear, YearlessPeriod.e.m, YearlessPeriod.e.d)

\* the line of Duke's second period format, "Billing Period - Nov 26 25 to Dec 29 25"
DukeSecondPeriod ==
    SearchPeriod(text, PeriodPat({"billing period", "billing period -", "billing period-"},
                                 TRUE, "mon_d_y24", {" to "}, "mon_d_y24", ""))

\* C10 amended: Duke recomputes the start in reference_year - 1 and keeps the end; when
\* that year has no such day the start is absent (unless the second period format is
\* printed).  Spectrum keeps the start and recomputes the end in reference_year + 1.
C10_DukeStartBackSpectrumEndForward ==
    PeriodReversed =>
        LET s == YearlessPeriod.s
            e == YearlessPeriod.e
            earlier == MakeDate(ReferenceYear - 1, s.m, s.d)
        IN IF provider = "duke"
           THEN IF earlier # None
                THEN /\ record.billing_period_start = earlier
                     /\ record.billing_period_end = MakeDate(ReferenceYear, e.m, e.d)
                ELSE DukeSecondPeriod = None =>
                        /\ record.billing_period_start = None
                        /\ record.billing_period_end = MakeDate(ReferenceYear, e.m, e.d)
           ELSE /\ record.billing_period_start = MakeDate(ReferenceYear, s.m, s.d)
                /\ record.billing_period_end = MakeDate(ReferenceYear + 1, e.m, e.d)

C10_Witness ==
    /\ PeriodReversed
    /\ provider = "duke"
    /\ record.bill_date = Date(2025, 12, 20)
    /\ record.billing_period_start = Date(2024, 12, 26)
    /\ record.billing_period_end = Date(2025, 1, 25)

-----------------------------------------------------------------------------
(* parse_amount as a function of the string it is given.                   *)

\* magnitudes as a document prints them, each with its value
Magnitudes ==
    {[s |-> "71.47", v |-> Num(7147, 2)], [s |-> "1,234.56", v |-> Num(123456, 2)],
     [s |-> "5", v |-> Num(5, 0)], [s |-> "0.50", v |-> Num(5, 1)],
     [s |-> "140.14", v |-> Num(14014, 2)]}

\* the ways an unsigned amount and a credit are written
Unsigned(m) == {m.s, "$" \o m.s}

Credit(m) == {"(" \o m.s \o ")", "($" \o m.s \o ")", m.s \o " CR", m.s \o "CR",
              "-" \o m.s, "-$" \o m.s}

NonNumeric == {"abc", "N/A", "$", "--", "see reverse"}

AmountStrings == UNION {Unsigned(m) \cup Credit(m) : m \in Magnitudes} \cup NonNumeric

InitAmount ==
    /\ provider \in Providers
    /\ text \in {<<Line(str)>> : str \in AmountStrings}
    /\ file_exists = TRUE
    /\ now_year = 2026
    /\ pc = "start"
    /\ detected = "none"
    /\ record = None
    /\ error = "none"
    /\ files = <<>>
    /\ clock = 1
    /\ call = None
    /\ returned = None

\* a call of parse_amount(amount_str): the string is the line of text, the float
\* returned is put in record
ParseAmount ==
    /\ pc = "start"
    /\ record' = parse_amount(provider, text[1].label)
    /\ pc' = "amount"
    /\ UNCHANGED <<provider, file_exists, text, now_year, detected, error, files, clock, call, returned>>

SpecAmount == InitAmount /\ [][ParseAmount]_vars

\* C12 as stated: every provider's parse_amount gives the magnitude of an unsigned
\* amount, the negated magnitude of each credit form (trailing CR, parentheses, leading
\* minus) and 0.0 for a string that is not numeric.
C12_SignedMagnitude ==
    pc = "amount" =>
        LET amount_str == text[1].label
        IN /\ \A m \in Magnitudes :
                /\ amount_str \in Unsigned(m) => record = m.v
                /\ amount_str \in Credit(m) => record = Neg(m.v)
           /\ amount_str \in NonNumeric => record = Zero

-----------------------------------------------------------------------------
(* C11: the Duke bill of the specification's example.  The three lines of  *)
(* the example in every order, under a bill heading, alone or with one     *)
(* more line of a Duke bill that carries none of the three fields.         *)

\* a property of the record parse_pdf returned for a bill
BillRecord == pc = "done" /\ record.document_type = "bill"

ExampleLines ==
    <<[label |-> "Account number", val |-> Acct("9101 7650 0588", "")],
      [label |-> "Bill date", val |-> DateStr("mdcy", 12, 31, 2025)],
      [label |-> "Total Amount Due", val |-> DateStr("md", 1, 26, 0), tail |-> "$140.14"]>>

OtherLines ==
    {Line("Thank you"), Line("Your Energy Bill"), Line("Payment Received -$135.02"),
     Line("Current Electric Charges"),
     [label |-> "Service address", val |-> Addr("1553", "UNDERBRUSH DR", FALSE, "DURHAM NC 27703")],
     [label |-> "For service", val |-> Period(DateStr("md", 11, 26, 0), " - ", DateStr("md", 12, 29, 0), None, FALSE)],
     [label |-> "Billing", val |-> Digits(34, 2, "days")]}

ExampleTexts ==
    LET orders == {o \in [1..3 -> 1..3] : \A i, j \in 1..3 : o[i] = o[j] => i = j}
        three == {[i \in 1..3 |-> ExampleLines[o[i]]] : o \in orders}
        four == {SubSeq(t, 1, at) \o <<x>> \o SubSeq(t, at + 1, 3) :
                    t \in three, at \in 0..3, x \in OtherLines}
    IN {<<Line("Duke Energy Billing Summary")>> \o t : t \in three \cup four}

InitExample ==
    /\ provider = "duke"
    /\ file_exists = TRUE
    /\ text \in ExampleTexts
    /\ now_year \in Years
    /\ pc = "start"
    /\ detected = "none"
    /\ record = None
    /\ error = "none"
    /\ files = <<>>
    /\ clock = 1
    /\ call = None
    /\ returned = None

SpecExample == InitExample /\ [][ParsePdf]_vars

\* C11: the Duke parser, given a bill whose text contains the lines "Account number
\* 9101 7650 0588", "Bill date Dec 31, 2025" and "Total Amount Due Jan 26 $140.14",
\* returns a record with account_number "910176500588", bill_date 2025-12-31, due_date
\* 2026-01-26 and amount_due 140.14
C11_DukeExample ==
    pc # "start" =>
        /\ BillRecord
        /\ record.account_number = Str("910176500588")
        /\ record.bill_date = Date(2025, 12, 31)
        /\ record.due_date = Date(2026, 1, 26)
        /\ record.amount_due = Num(14014, 2)

\* the example's three lines in the order the specification gives them, parsed
C11_Witness ==
    /\ BillRecord
    /\ text = <<Line("Duke Energy Billing Summary")>> \o ExampleLines
    /\ record.due_date = Date(2026, 1, 26)
    /\ record.amount_due = Num(14014, 2)

-----------------------------------------------------------------------------
(* Bills with amounts: the bill heading, then up to MaxFields lines that   *)
(* print an amount after a label the provider's parser looks for.          *)

\* an amount as a bill prints it: plain, with "$", zero, and the three ways of
\* writing a credit
AmountValues == {"$140.14", "45.10", "$0.00", "-$71.32", "(71.47)", "71.47 CR"}

\* the labels before an amount: a label ends with its date where the parser's pattern
\* reads one ("CURRENT CHARGES DUE BY 01/05/2026 140.14")
AmountLabels(p) ==
    LET L(l, v) == [label |-> l, val |-> v]
    IN CASE p = "duke" -> {Line("Total Amount Due"), Line("Payment Received"),
                           Line("Current Electric Charges")}
         [] p = "durham" -> {Line("Total Amount Due"), Line("Balance Forward")}
         [] p = "enbridge" -> {Line("AMOUNT DUE"), Line("Total Current Charges"),
                               Line("Payment Received")}
         [] p = "graham" -> {Line("TOTAL DUE:"), Line("AMOUNT DUE:")}
         [] p = "smud" -> {Line("Amount Due"), Line("Previous Balance"),
                           Line("Payments Received"), Line("Electric Charges"), Line("Taxes")}
         [] p = "spectrum" -> {Line("Amount Due"), Line("Auto Pay Amount"),
                               Line("Payment Received")}
         [] p = "wake" -> {L("CURRENT CHARGES DUE BY", DateStr("num4", 1, 5, 2026)),
                           L("BANK DRAFTED ON", DateStr("num4", 1, 5, 2026)),
                           Line("PAYMENT THANK YOU")}
         [] p = "xfinity" -> {Line("Amount Due"), Line("Please pay"), Line("New charges"),
                              L("EFT Payment - thank you", DateStr("md", 1, 2, 0))}

AmountLines(p) ==
    {IF l.val = None THEN Line(l.label \o " " \o v) ELSE l @@ [tail |-> v] :
        l \in AmountLabels(p), v \in AmountValues}
    \cup (IF p = "durham" THEN {Line("[Sys_Balance=45.10]"), Line("[Sys_Balance=0.00]")} ELSE {})

BillHeading(p) == CHOOSE h \in Headers(p) : h # <<>> /\ detect_document_type(p, JoinLines(h)) = "bill"

BillTexts(p) == {BillHeading(p) \o b : b \in SeqsUpTo(AmountLines(p), MaxFields)}

InitBill ==
    /\ provider \in Providers
    /\ file_exists = TRUE
    /\ text \in BillTexts(provider)
    /\ now_year = 2026
    /\ pc = "start"
    /\ detected = "none"
    /\ record = None
    /\ error = "none"
    /\ files = <<>>
    /\ clock = 1
    /\ call = None
    /\ returned = None

SpecBill == InitBill /\ [][ParsePdf]_vars

-----------------------------------------------------------------------------
(* C13, C14, C15 *)

\* C13 as stated: in every bill record payments_received is >= 0, however the text
\* wrote the payment
C13_PaymentsNotNegative ==
    (BillRecord /\ "payments_received" \in DOMAIN record) => record.payments_received.n >= 0

\* C14 as stated: in every bill record amount_due, previous_balance and the charge
\* fields are >= 0, whatever sign or credit marker the text carries
C14_AmountsNotNegative ==
    BillRecord =>
        \A f \in DOMAIN record \cap {"amount_due", "previous_balance", "electric_charges", "taxes"} :
            record[f].n >= 0

\* C15 as stated, for amount_due: when some pattern of the provider's ordered list
\* matches with an amount > 0, amount_due is the amount of the first such pattern
C15_FirstPlausibleAmount ==
    (BillRecord /\ provider # "smud") =>
        LET pats == amount_patterns(provider)
            t == JoinLines(text)
            Value(i) == LET m == SearchAmt(t, pats[i])
                        IN IF m = None THEN Zero ELSE parse_amount(provider, m.s)
            plausible == {i \in 1..Len(pats) : Value(i).n > 0}
        IN plausible # {} =>
              record.amount_due = Value(CHOOSE i \in plausible : \A j \in plausible : i <= j)

-----------------------------------------------------------------------------
(* C16: bills that print account numbers and other digit runs of the same  *)
(* shape.                                                                   *)

\* the lines of a provider's account number, labelled as its patterns ask, and of
\* other numbers of the same shape
AccountLines(p) ==
    LET L(l, v) == [label |-> l, val |-> v]
    IN CASE p = "duke" ->
              {L("Account number", Acct("9101 7650 0588", "")),
               L("Account#", Acct("910176500588", "")),
               L("Meter", Acct("1111 2222 3333", "")), L("Ref", Acct("12345", ""))}
         [] p = "spectrum" ->
              {L("Account Number", Acct("8349 10 012 2086755", "")),
               L("Ref", Acct("8349 10 012 2086799", "")),
               L("Ref", Acct("8349100122086799", ""))}
         [] p = "xfinity" ->
              {L("Account Number", Acct("8155 60 082 0617408", "")),
               L("Account #", Acct("8155600820617408", "")),
               L("Ref", Acct("8155 60 082 0617499", ""))}
         [] p = "wake" ->
              {L("ACCOUNT NUMBER", Acct("1052436902", "")), L("Ref", Acct("9999999999", "")),
               L("Ref", Acct("12345", ""))}
         [] p = "enbridge" ->
              {L("ACCOUNT NUMBER", Acct("7-2101-4365-2043", "")),
               L("Ref", Acct("1-1111-2222-3333", "")), L("Ref", Acct("12345", ""))}
         [] p = "durham" ->
              {L("Account #", Acct("123456789012", "")),
               L("[Sys_Acct_ID=", Acct("123456789012", "")),
               L("Ref", Acct("999999999999", "IVANOV")), L("Ref", Acct("12345", ""))}
         [] p = "graham" ->
              {L("ACCOUNT NO:", Acct("50530-17", "")), L("Ref", Acct("11111-22", "PIN: 4788")),
               L("Ref", Acct("11111-22", ""))}
         [] p = "smud" ->
              {L("Account Number:", Acct("1234567", "")), L("Ref", Acct("7654321", "")),
               L("Account Number:", Acct("12345", ""))}

AccountTexts(p) == {BillHeading(p) \o b : b \in SeqsUpTo(AccountLines(p), MaxFields)}

InitAccount ==
    /\ provider \in Providers
    /\ file_exists = TRUE
    /\ text \in AccountTexts(provider)
    /\ now_year = 2026
    /\ pc = "start"
    /\ detected = "none"
    /\ record = None
    /\ error = "none"
    /\ files = <<>>
    /\ clock = 1
    /\ call = None
    /\ returned = None

SpecAccount == InitAccount /\ [][ParsePdf]_vars

\* the account numbers, blanks removed, that the label-anchored strategies of the
\* provider find in the text: the patterns that begin with a label, and SMUD's
\* labelled value of 7 to 10 digits
LabelledNumbers(p, txt) ==
    LET Digits10(value) ==
            IF value # None /\ Len(Filter(value.s, DigitSet, TRUE)) \in 7..10
            THEN {Prefix(Filter(value.s, DigitSet, TRUE), 10)} ELSE {}
        Found(pats) ==
            {Filter(SearchAcct(txt, pats[i]).s, WhiteChars, FALSE) :
                i \in {j \in 1..Len(pats) : pats[j].labs # {""} /\ SearchAcct(txt, pats[j]) # None}}
    IN IF p = "smud" THEN Digits10(find_value_after_label(JoinLines(txt), smud_account_labels))
       ELSE Found(account_patterns(p))

\* C16 as stated: when a label-anchored strategy of the provider matches the text, the
\* account number of the bill is a number found by such a strategy, never a digit run
\* that stands elsewhere
C16_AnchoredBeforeUnanchored ==
    (BillRecord /\ LabelledNumbers(provider, text) # {}) =>
        Filter(record.account_number.s, WhiteChars, FALSE) \in LabelledNumbers(provider, text)

-----------------------------------------------------------------------------
(* C17: parse_date called with a date string alone, without a reference    *)
(* year.                                                                    *)

\* the parsers whose parse_date takes a reference year
DateProviders == {"duke", "spectrum", "xfinity"}

\* the days of the month tried
MonthDays == {1, 15, 28, 29, 30, 31}

\* "Dec 31": month and day alone; "Dec 31, 2025" and "12/31/2025": the same with a year
DateStrings ==
    {DateStr("md", m, d, 0) : m \in 1..12, d \in MonthDays}
    \cup {DateStr(f, m, 15, 2025) : f \in {"mdcy", "num4"}, m \in 1..12}

\* parse_date(date_str, reference_year) of Duke, parse_date(date_str, ref_year) of
\* Spectrum and Xfinity; NoYear is the default None of the second parameter
parse_date(p, date_str, reference_year, now) ==
    IF p = "duke" THEN duke_parse_date(date_str, reference_year)
    ELSE spectrum_parse_date(date_str, reference_year, now)

InitDate ==
    /\ provider \in DateProviders
    /\ text \in {<<[label |-> "", val |-> ds]>> : ds \in DateStrings}
    /\ file_exists = TRUE
    /\ now_year \in Years
    /\ pc = "start"
    /\ detected = "none"
    /\ record = None
    /\ error = "none"
    /\ files = <<>>
    /\ clock = 1
    /\ call = None
    /\ returned = None

\* a call of parse_date(date_str): the string is the value of the line of text, the
\* date returned (None: not found) is put in record
ParseDate ==
    /\ pc = "start"
    /\ record' = parse_date(provider, text[1].val, NoYear, now_year)
    /\ pc' = "date"
    /\ UNCHANGED <<provider, file_exists, text, now_year, detected, error, files, clock, call, returned>>

SpecDate == InitDate /\ [][ParseDate]_vars

\* C17 as stated: parse_date of Duke, Spectrum and Xfinity, given month and day alone
\* and no reference year, returns that day of the current year (when the current year
\* has that day)
C17_YearlessInCurrentYear ==
    (/\ pc = "date" /\ text[1].val.f = "md"
     /\ MakeDate(now_year, text[1].val.m, text[1].val.d) # None)
        => record = MakeDate(now_year, text[1].val.m, text[1].val.d)

-----------------------------------------------------------------------------
(* lib/bill_storage.py: address_to_slug.                                    *)

\* \w: letters, digits and "_"
WordSet == UpperSet \cup {SubSeq(LowerChars, i, i) : i \in 1..26} \cup DigitSet \cup {"_"}

\* [a-z0-9]
SlugSet == {SubSeq(LowerChars, i, i) : i \in 1..26} \cup DigitSet

RECURSIVE CharRun(_, _, _)
\* how many characters of s from pos on are in chars
CharRun(s, pos, chars) ==
    IF pos <= Len(s) /\ SubSeq(s, pos, pos) \in chars THEN 1 + CharRun(s, pos + 1, chars) ELSE 0

RECURSIVE CharRunBack(_, _, _)
\* how many characters of s from pos back are in chars
CharRunBack(s, pos, chars) ==
    IF pos >= 1 /\ SubSeq(s, pos, pos) \in chars THEN 1 + CharRunBack(s, pos - 1, chars) ELSE 0

\* address.split(",")[0]
BeforeComma(address) ==
    IF Find(address, ",") = -1 THEN address ELSE SubSeq(address, 1, Find(address, ","))

\* the alternatives of the unit pattern, in its order
unit_designations == <<"UNIT", "APT", "STE", "SUITE", "#">>

\* the length of the match of \s+(UNIT|APT|STE|SUITE|#)\s*\w* with re.IGNORECASE that
\* starts at pos, 0 when there is none
UnitAt(s, pos) ==
    LET Is(from, word) == /\ from + Len(word) - 1 <= Len(s)
                          /\ Upper(SubSeq(s, from, from + Len(word) - 1)) = word
        Word(from) == from + CharRun(s, from, WordSet)
        Blanks(from) == Word(from + CharRun(s, from, WhiteChars))
        Designation(from, found) ==
            IF found = {} THEN 0
            ELSE Blanks(from + Len(unit_designations[CHOOSE i \in found : \A j \in found : i <= j]))
                 - pos
        Blank(n) == IF n = 0 THEN 0
                    ELSE Designation(pos + n, {i \in 1..Len(unit_designations) :
                                                  Is(pos + n, unit_designations[i])})
    IN Blank(CharRun(s, pos, WhiteChars))

RECURSIVE RemoveUnits(_, _)
\* re.sub(r'\s+(UNIT|APT|STE|SUITE|#)\s*\w*', '', s, flags=re.IGNORECASE) of s from pos on
RemoveUnits(s, pos) ==
    LET Rest(n) == IF n > 0 THEN RemoveUnits(s, pos + n)
                   ELSE SubSeq(s, pos, pos) \o RemoveUnits(s, pos + 1)
    IN IF pos > Len(s) THEN "" ELSE Rest(UnitAt(s, pos))

\* the street address left as it is written

\* re.match(r'^(\d+)\s+(.+?)\s+([A-Z])$', street_address, re.IGNORECASE): the number, a
\* street of at least one character and a last letter after blanks give
\* f"{num}{unit} {street}"; \s+ is greedy and gives blanks back, .+? takes the least
trailing_unit_match(street_address) ==
    LET len == Len(street_address)
        Letters == UpperSet \cup {SubSeq(LowerChars, i, i) : i \in 1..26}
        Moved(num, from, to) ==
            SubSeq(street_address, 1, num) \o Upper(SubSeq(street_address, len, len)) \o " "
            \o SubSeq(street_address, from, to)
        Greater(a, b) == IF a < b THEN b ELSE a
        \* from: where the street starts, the most blanks before it that leave a match
        Street(num, starts, last) ==
            IF starts = {} THEN street_address
            ELSE Moved(num, CHOOSE x \in starts : \A y \in starts : y <= x,
                       Greater(CHOOSE x \in starts : \A y \in starts : y <= x, last))
        Blanks(num, first, last) ==
            Street(num, {from \in (num + 2)..(num + first + 1) : from <= len - 2}, last)
        Number(num) ==
            IF num = 0 \/ len = 0 \/ SubSeq(street_address, len, len) \notin Letters
               \/ CharRunBack(street_address, len - 1, WhiteChars) = 0
            THEN street_address
            ELSE Blanks(num, CharRun(street_address, num + 1, WhiteChars),
                        len - 1 - CharRunBack(street_address, len - 1, WhiteChars))
    IN Number(CharRun(street_address, 1, DigitSet))

RECURSIVE Blanked(_, _)
\* a blank in place of the dash
Blanked(s, pos) ==
    IF pos > Len(s) THEN ""
    ELSE IF SubSeq(s, pos, pos) \in SlugSet THEN SubSeq(s, pos, pos) \o Blanked(s, pos + 1)
    ELSE IF pos > 1 /\ SubSeq(s, pos - 1, pos - 1) \notin SlugSet THEN Blanked(s, pos + 1)
    ELSE " " \o Blanked(s, pos + 1)

RECURSIVE Dashed(_, _)
\* re.sub(r'[^a-z0-9]+', '-', s) of s from pos on: one dash for each run
Dashed(s, pos) ==
    IF pos > Len(s) THEN ""
    ELSE IF SubSeq(s, pos, pos) \in SlugSet THEN SubSeq(s, pos, pos) \o Dashed(s, pos + 1)
    ELSE IF pos > 1 /\ SubSeq(s, pos - 1, pos - 1) \notin SlugSet THEN Dashed(s, pos + 1)
    ELSE "-" \o Dashed(s, pos + 1)

\* slug.strip('-')
StripDashes(slug) ==
    IF CharRun(slug, 1, {"-"}) = Len(slug) THEN ""
    ELSE SubSeq(slug, CharRun(slug, 1, {"-"}) + 1, Len(slug) - CharRunBack(slug, Len(slug), {"-"}))

address_to_slug(address) ==
    StripDashes(Dashed(Lower(trailing_unit_match(
        Strip(RemoveUnits(Strip(BeforeComma(address)), 1)))), 1))

-----------------------------------------------------------------------------
(* C18, C19: address_to_slug of the addresses of a property, written with  *)
(* the unit letter after the number or at the end, with or without the     *)
(* city after a comma, in upper case, lower case or capitalised words, and *)
(* of other addresses.                                                      *)

\* a property: its number, its street and the letter of its unit, "" when it has none
Place(num, street, unit) == [k |-> "place", num |-> num, street |-> street, unit |-> unit]

Places == {Place("310", street, unit) :
              street \in {"HOWARD ST", "N. MAIN ST", "STERLING RD", "AVENUE A", "UNIT ST"},
              unit \in {"", "B"}}

RECURSIVE Capitalised(_, _)
\* s from pos on with the first letter of each word in upper case, the others in lower
Capitalised(s, pos) ==
    IF pos > Len(s) THEN ""
    ELSE (IF pos > 1 /\ SubSeq(s, pos - 1, pos - 1) \in WordSet
          THEN Lower(SubSeq(s, pos, pos)) ELSE Upper(SubSeq(s, pos, pos)))
         \o Capitalised(s, pos + 1)

\* the property as an address: trailing puts the unit letter at the end, city adds
\* the city, state and zip code after a comma
Written(place, trailing, city, case) ==
    LET street_address ==
            IF trailing /\ place.unit # ""
            THEN place.num \o " " \o place.street \o " " \o place.unit
            ELSE place.num \o place.unit \o " " \o place.street
        address == street_address \o (IF city THEN ", DURHAM NC 27701" ELSE "")
    IN CASE case = "upper" -> Upper(address)
         [] case = "lower" -> Lower(address)
         [] case = "words" -> Capitalised(address, 1)

Cases == {"upper", "lower", "words"}

\* the lines of the addresses of a place
Writings(place) ==
    {[label |-> Written(place, trailing, city, case), val |-> place] :
        trailing \in BOOLEAN, city \in BOOLEAN, case \in Cases}

OtherAddresses ==
    {"3606 APPLING WAY, DURHAM NC 27703", "118 King Arthur Ct Apt 2", "310 HOWARD ST #3",
     "310 HOWARD ST-B", "  1553 underbrush dr  ", "310 HOWARD ST UNIT B, DURHAM",
     "12 Suite 5 Main St", "310   B", "310 B", "PO BOX 12", "", " , ", "--310__HOWARD--"}

\* two addresses of one place, or one address
SlugTexts ==
    UNION {{<<a, b>> : a \in Writings(place), b \in Writings(place)} : place \in Places}
    \cup {<<Line(address)>> : address \in OtherAddresses}

InitSlug ==
    /\ provider = "duke"
    /\ file_exists = TRUE
    /\ text \in SlugTexts
    /\ now_year = 2026
    /\ pc = "start"
    /\ detected = "none"
    /\ record = None
    /\ error = "none"
    /\ files = <<>>
    /\ clock = 1
    /\ call = None
    /\ returned = None

\* address_to_slug(address) of each address of the text: record holds the slugs
AddressToSlug ==
    /\ pc = "start"
    /\ record' = [i \in 1..Len(text) |-> address_to_slug(text[i].label)]
    /\ pc' = "slug"
    /\ UNCHANGED <<provider, file_exists, text, now_year, detected, error, files, clock, call, returned>>

\* address_to_slug applied to each slug
SlugToSlug ==
    /\ pc = "slug"
    /\ record' = [i \in 1..Len(record) |-> address_to_slug(record[i])]
    /\ pc' = "slug of slug"
    /\ UNCHANGED <<provider, file_exists, text, now_year, detected, error, files, clock, call, returned>>

SpecSlug == InitSlug /\ [][AddressToSlug \/ SlugToSlug]_vars

\* C18: address_to_slug applied to its own output returns it unchanged
C18_SlugIdempotent == [][pc = "slug" => record' = record]_vars

\* a slug that differs from its address has been given to address_to_slug again
C18_Witness ==
    /\ pc = "slug of slug"
    /\ text[1].label = "310 HOWARD ST-B"
    /\ record[1] = "310-howard-st-b"

\* C19 as stated: two addresses of one property that differ in the place of the unit
\* letter, in the city after a comma or in letter case have the same slug
C19_SamePropertySameSlug ==
    (pc = "slug" /\ Len(text) = 2 /\ text[1].val # None /\ text[1].val = text[2].val)
        => record[1] = record[2]

-----------------------------------------------------------------------------
(* bill_storage: save_bill_pdf and copy_bill_to_standard_location. files   *)
(* maps each path that exists to the bytes of its file, clock is the second *)
(* datetime.now() reads, call holds the arguments of the last call and      *)
(* returned what it returned or raised.                                     *)

\* provider_to_slug(provider)
provider_to_slug(name) == StripDashes(Dashed(Lower(name), 1))

RECURSIVE Zfill(_, _)
\* n in decimal, zero-padded to width digits
Zfill(n, width) == IF width = 0 THEN "" ELSE Zfill(n \div 10, width - 1) \o DigitStr(n % 10)

\* the year and the month without zero padding
UnpaddedPeriod(date) == Zfill(date.y, 4) \o "-" \o (IF date.m < 10 THEN DigitStr(date.m) ELSE Zfill(date.m, 2))

\* format_billing_period(date): date.strftime("%Y-%m")
format_billing_period(date) == Zfill(date.y, 4) \o "-" \o Zfill(date.m, 2)

\* get_bills_directory() under the project root
get_bills_directory == "data/bills"

\* get_bill_path(address, provider, billing_date)
get_bill_path(address, name, billing_date) ==
    Concat(<<get_bills_directory, "/", address_to_slug(address), "/",
             provider_to_slug(name), "_", format_billing_period(billing_date), ".pdf">>)

\* file_path.with_stem(f"{file_path.stem}_{timestamp}") of a path that ends in .pdf
with_stem(file_path, timestamp) ==
    Concat(<<SubSeq(file_path, 1, Len(file_path) - 4), "_", timestamp, ".pdf">>)

\* datetime.now().strftime("%Y%m%d_%H%M%S") at the seconds the clock goes through
Timestamps == <<"20261104_090000", "20261104_090001">>

\* the file system after path has been opened with 'wb' and content written to it
WriteFile(fs, path, content) ==
    [q \in DOMAIN fs \cup {path} |-> IF q = path THEN content ELSE fs[q]]

PathOf(path) == [k |-> "path", path |-> path]

\* save_bill_pdf(address, provider, billing_date, pdf_content) on the files fs at the
\* second now: the files afterwards and the path returned
save_bill_pdf(fs, now, address, name, billing_date, pdf_content) ==
    LET Saved(file_path) ==
            [files |-> WriteFile(fs, file_path, pdf_content), returned |-> PathOf(file_path)]
        Save(file_path) ==
            IF file_path \in DOMAIN fs
            THEN IF Len(fs[file_path]) = Len(pdf_content)
                 THEN [files |-> fs, returned |-> PathOf(file_path)]
                 ELSE Saved(with_stem(file_path, now))
            ELSE Saved(file_path)
    IN Save(get_bill_path(address, name, billing_date))

\* copy_bill_to_standard_location(source_path, address, provider, billing_date)
copy_bill_to_standard_location(fs, now, source_path, address, name, billing_date) ==
    LET Copied(dest_path) ==
            [files |-> WriteFile(fs, dest_path, fs[source_path]), returned |-> PathOf(dest_path)]
        Copy(dest_path) ==
            IF source_path \notin DOMAIN fs
            THEN [files |-> fs, returned |-> Raise("FileNotFoundError")]
            ELSE IF dest_path \in DOMAIN fs
            THEN IF Len(fs[source_path]) = Len(fs[dest_path])
                 THEN [files |-> fs, returned |-> PathOf(dest_path)]
                 ELSE Copied(with_stem(dest_path, now))
            ELSE Copied(dest_path)
    IN Copy(get_bill_path(address, name, billing_date))

-----------------------------------------------------------------------------
(* C20: the storage functions called again and again on one directory.      *)

\* the bills a scraper stores: two writings of one property in one month, and
\* another provider's bill
Bills ==
    {[address |-> "310 HOWARD ST B", provider |-> "Duke Energy", billing_date |-> Date(2026, 1, 15)],
     [address |-> "310B HOWARD ST, DURHAM NC 27701", provider |-> "Duke Energy", billing_date |-> Date(2026, 1, 20)],
     [address |-> "310 HOWARD ST B", provider |-> "Enbridge Gas", billing_date |-> Date(2026, 2, 3)]}

\* the bytes of a PDF: two of one length and a longer one
Contents == {"%PDF-A", "%PDF-B", "%PDF-CC"}

\* the files a scraper has downloaded
Downloads ==
    [q \in {"downloads/bill.pdf", "downloads/bill (1).pdf", "downloads/bill (2).pdf"} |->
        CASE q = "downloads/bill.pdf" -> "%PDF-A"
          [] q = "downloads/bill (1).pdf" -> "%PDF-B"
          [] OTHER -> "%PDF-CC"]

SourcePaths == DOMAIN Downloads \cup {"downloads/missing.pdf"}

InitStorage ==
    /\ provider = "duke"
    /\ file_exists = TRUE
    /\ text = <<>>
    /\ now_year = 2026
    /\ pc = "start"
    /\ detected = "none"
    /\ record = None
    /\ error = "none"
    /\ files = Downloads
    /\ clock = 1
    /\ call = None
    /\ returned = None

\* a call of save_bill_pdf
SaveBillPdf ==
    /\ \E bill \in Bills, pdf_content \in Contents :
          LET Done(r) == files' = r.files /\ returned' = r.returned
          IN /\ Done(save_bill_pdf(files, Timestamps[clock], bill.address, bill.provider,
                                   bill.billing_date, pdf_content))
             /\ call' = [op |-> "save_bill_pdf", bill |-> bill, pdf_content |-> pdf_content]
    /\ UNCHANGED <<provider, file_exists, text, now_year, pc, detected, record, error, clock>>

\* a call of copy_bill_to_standard_location
CopyBill ==
    /\ \E bill \in Bills, source_path \in SourcePaths :
          LET Done(r) == files' = r.files /\ returned' = r.returned
          IN /\ Done(copy_bill_to_standard_location(files, Timestamps[clock], source_path,
                                                    bill.address, bill.provider, bill.billing_date))
             /\ call' = [op |-> "copy_bill_to_standard_location", bill |-> bill,
                         source_path |-> source_path]
    /\ UNCHANGED <<provider, file_exists, text, now_year, pc, detected, record, error, clock>>

\* a second passes
Tick ==
    /\ clock < Len(Timestamps)
    /\ clock' = clock + 1
    /\ UNCHANGED <<provider, file_exists, text, now_year, pc, detected, record, error,
                   files, call, returned>>

SpecStorage == InitStorage /\ [][SaveBillPdf \/ CopyBill \/ Tick]_vars

\* the bytes the last call was given to store
NewContent(c, fs) == IF c.op = "save_bill_pdf" THEN c.pdf_content ELSE fs[c.source_path]

\* C20 as stated: when the target path holds a file whose content differs from the
\* new content, the new content is written to a timestamp-suffixed path, which is
\* returned, and the target is left as it was; when the content is identical nothing
\* is written and the target path is returned
C20_DifferingContentSuffixed ==
    [][(clock' = clock /\ returned'.k = "path"
            /\ get_bill_path(call'.bill.address, call'.bill.provider, call'.bill.billing_date) \in DOMAIN files)
        => LET target == get_bill_path(call'.bill.address, call'.bill.provider, call'.bill.billing_date)
               content == NewContent(call', files)
           IN IF files[target] # content
              THEN /\ \E i \in DOMAIN Timestamps : returned'.path = with_stem(target, Timestamps[i])
                   /\ files'[returned'.path] = content
                   /\ files'[target] = files[target]
              ELSE /\ files' = files
                   /\ returned'.path = target]_vars

-----------------------------------------------------------------------------
(* C21: get_bill_path on two bills, and once more on the same two.         *)

PathAddresses ==
    {"3606 APPLING WAY, DURHAM NC 27703", "3606 Appling Way", "310 HOWARD ST B",
     "310B HOWARD ST, DURHAM NC 27701"}

PathProviders == {"Duke Energy", "duke-energy", "Enbridge Gas"}

\* billing dates, each with its year and month as the path is to show them
PathDates ==
    {[date |-> Date(2026, 1, 15), period |-> "2026-01"],
     [date |-> Date(2026, 1, 31), period |-> "2026-01"],
     [date |-> Date(2025, 12, 1), period |-> "2025-12"],
     [date |-> Date(2026, 10, 9), period |-> "2026-10"]}

PathCalls ==
    {[address |-> address, provider |-> name, billing_date |-> d.date, period |-> d.period] :
        address \in PathAddresses, name \in PathProviders, d \in PathDates}

InitPath ==
    /\ provider = "duke"
    /\ file_exists = TRUE
    /\ text = <<>>
    /\ now_year = 2026
    /\ pc = "start"
    /\ detected = "none"
    /\ record = None
    /\ error = "none"
    /\ files = <<>>
    /\ clock = 1
    /\ call \in {<<a, b>> : a \in PathCalls, b \in PathCalls}
    /\ returned = None

\* get_bill_path(address, provider, billing_date) of each of the two bills
GetBillPath ==
    /\ pc = "start"
    /\ returned' = [i \in 1..2 |-> get_bill_path(call[i].address, call[i].provider, call[i].billing_date)]
    /\ pc' = "path"
    /\ UNCHANGED <<provider, file_exists, text, now_year, detected, record, error, files, clock, call>>

\* the same two calls again: record keeps what the first calls returned
GetBillPathAgain ==
    /\ pc = "path"
    /\ record' = returned
    /\ returned' = [i \in 1..2 |-> get_bill_path(call[i].address, call[i].provider, call[i].billing_date)]
    /\ pc' = "path again"
    /\ UNCHANGED <<provider, file_exists, text, now_year, detected, error, files, clock, call>>

SpecPath == InitPath /\ [][GetBillPath \/ GetBillPathAgain]_vars

\* the address slug, the provider slug and the year and month of a call
PathKey(c) == <<address_to_slug(c.address), provider_to_slug(c.provider), c.billing_date.y, c.billing_date.m>>

\* C21: get_bill_path returns <bills directory>/{address slug}/{provider slug}_{YYYY-MM}.pdf,
\* two calls with the same address slug, provider slug and year-month return the same
\* path, and a repeated call returns what the first returned
C21_BillPathForm ==
    /\ pc \in {"path", "path again"} =>
          /\ \A i \in 1..2 :
                returned[i] = Concat(<<get_bills_directory, "/", address_to_slug(call[i].address), "/",
                                       provider_to_slug(call[i].provider), "_", call[i].period, ".pdf">>)
          /\ PathKey(call[1]) = PathKey(call[2]) => returned[1] = returned[2]
    /\ pc = "path again" => returned = record

\* two writings of one property billed on different days of a month share a path
C21_Witness ==
    /\ pc = "path again"
    /\ call[1].address = "310 HOWARD ST B" /\ call[1].billing_date.d = 15
    /\ call[2].address = "310B HOWARD ST, DURHAM NC 27701" /\ call[2].billing_date.d = 31
    /\ returned = <<"data/bills/310b-howard-st/duke-energy_2026-01.pdf",
                    "data/bills/310b-howard-st/duke-energy_2026-01.pdf">>

-----------------------------------------------------------------------------
(* C22: one bill parsed in one year and parsed again in a later year.      *)

InitClock ==
    /\ provider \in Providers
    /\ file_exists = TRUE
    /\ text \in {BillHeading(provider) \o b : b \in SeqsUpTo(FieldLines(provider), MaxFields)}
    /\ now_year = 2025
    /\ pc = "start"
    /\ detected = "none"
    /\ record = None
    /\ error = "none"
    /\ files = <<>>
    /\ clock = 1
    /\ call = None
    /\ returned = None

\* parse_pdf(pdf_path) of the same file when datetime.now() is in a later year:
\* returned keeps the record of the first call
ParsePdfLater ==
    /\ pc = "done"
    /\ \E later \in Years \ {now_year} :
          LET Again(r) == /\ r.k = "record"
                          /\ record' = r
                          /\ now_year' = later
          IN Again(parse_pdf(provider, file_exists, text, later))
    /\ returned' = record
    /\ pc' = "done again"
    /\ UNCHANGED <<provider, file_exists, text, detected, error, files, clock, call>>

SpecClock == InitClock /\ [][ParsePdf \/ ParsePdfLater]_vars

\* C22 as stated: the record parsed from a text does not depend on the date of the run
C22_SameRecordAnyDate ==
    pc = "done again" => record = returned

-----------------------------------------------------------------------------
(* SMUD: the scan of the lines for an address and its guard against garbled *)
(* text.                                                                    *)

LetterSet == UpperSet \cup {LowerChar(c) : c \in UpperSet}

\* _has_repeated_chars(text)
has_repeated_chars(line) ==
    LET ch(i) == SubSeq(line, i, i)
    IN IF Len(line) < 8 THEN FALSE
       ELSE IF \A i \in {1, 3, 5} : ch(i) \in DigitSet => ch(i) = ch(i + 2) THEN TRUE
       ELSE \E i \in 1..(Len(line) - 2) : ch(i) \in LetterSet /\ ch(i) = ch(i + 1) /\ ch(i + 1) = ch(i + 2)

RECURSIVE JoinWords(_, _)
\* ' '.join(s.split()) of a stripped s, from position pos on
JoinWords(s, pos) ==
    IF pos > Len(s) THEN ""
    ELSE IF SubSeq(s, pos, pos) \in WhiteChars
    THEN (IF SubSeq(s, pos - 1, pos - 1) \in WhiteChars THEN "" ELSE " ") \o JoinWords(s, pos + 1)
    ELSE SubSeq(s, pos, pos) \o JoinWords(s, pos + 1)

\* the body of the scan loop of extract_service_address for one line: the address
\* it returns, None when it goes on to the next line
scan_line(raw) ==
    LET Address(line, idx) == JoinWords(Strip(Prefix(line, idx)), 1)
        Tried(line, i) == Address(line, Find(Upper(line), street_suffixes[i]) + Len(street_suffixes[i]))
        Hit(line, hits) == IF hits = {} THEN None
                           ELSE Str(Upper(Tried(line, CHOOSE i \in hits : \A j \in hits : i <= j)))
        Suffixed(line) == Hit(line, {i \in 1..Len(street_suffixes) :
                                        /\ Contains(Upper(line), street_suffixes[i])
                                        /\ Len(Tried(line, i)) > 5})
        Scan(line) == IF line = "" \/ SubSeq(line, 1, 1) \notin DigitSet THEN None
                      ELSE IF has_repeated_chars(line) THEN None
                      ELSE Suffixed(line)
    IN Scan(Strip(raw))

-----------------------------------------------------------------------------
(* C23: the guard and the scan on candidate lines.                          *)

HouseNumbers == {"1", "12", "44", "1212", "4411", "1553", "112233", "44117711", "11111111", "1212121"}

StreetParts == {" ELM ST", " OOO ST", " OOO", " COOMMMMON ST", " MAIN ST", " UNDERBRUSH DR",
                " Aaa Way", " WWW"}

CandidateLines == {n \o street : n \in HouseNumbers, street \in StreetParts}

InitGuard ==
    /\ provider = "smud"
    /\ file_exists = TRUE
    /\ text \in {<<Line(c)>> : c \in CandidateLines}
    /\ now_year = 2026
    /\ pc = "start"
    /\ detected = "none"
    /\ record = None
    /\ error = "none"
    /\ files = <<>>
    /\ clock = 1
    /\ call = None
    /\ returned = None

\* _has_repeated_chars(line) and the scan of the line
HasRepeatedChars ==
    /\ pc = "start"
    /\ record' = [repeated |-> has_repeated_chars(text[1].label), address |-> scan_line(text[1].label)]
    /\ pc' = "guarded"
    /\ UNCHANGED <<provider, file_exists, text, now_year, detected, error, files, clock, call, returned>>

SpecGuard == InitGuard /\ [][HasRepeatedChars]_vars

\* three or more identical consecutive letters somewhere in the line
TripleLetter(line) ==
    \E i \in 1..(Len(line) - 2) :
        /\ SubSeq(line, i, i) \in LetterSet
        /\ SubSeq(line, i, i) = SubSeq(line, i + 1, i + 1)
        /\ SubSeq(line, i, i) = SubSeq(line, i + 2, i + 2)

\* the leading digits are doubled digit by digit, as in "44117711"
DoubledDigits(line) ==
    LET n == CHOOSE k \in 0..Len(line) :
                 /\ \A i \in 1..k : SubSeq(line, i, i) \in DigitSet
                 /\ (k = Len(line) \/ SubSeq(line, k + 1, k + 1) \notin DigitSet)
    IN /\ n >= 8
       /\ n % 2 = 0
       /\ \A i \in 1..(n \div 2) : SubSeq(line, 2 * i - 1, 2 * i - 1) = SubSeq(line, 2 * i, 2 * i)

\* C23 as stated: the guard is true for every candidate line, whatever its length, with
\* three identical consecutive letters or with doubled leading digits, and the scan
\* returns no address from such a line
C23_GarbledLineDiscarded ==
    (pc = "guarded" /\ (TripleLetter(text[1].label) \/ DoubledDigits(text[1].label)))
        => record.repeated /\ record.address = None

-----------------------------------------------------------------------------
(* main.py: parse_local_pdfs(directory).  files is the directory: whether  *)
(* it exists and the PDFs glob lists, each with whether its path still     *)
(* resolves and the lines pdfplumber extracts; call is the position of the *)
(* loop in pdf_files and returned the FetchResult.                         *)

BatchProviders == {"enbridge", "spectrum"}

\* FetchResult(success=False)
FetchResult == [success |-> FALSE, bills |-> <<>>, errors |-> <<>>, downloaded_pdfs |-> <<>>]

\* pdf_path.name of the i-th file of pdf_files
PdfName(i) == "bill_" \o DigitStr(i) \o ".pdf"

\* the body of a loop that also lists the path of a PDF whose parse raised
parse_listing_all(result, name, r) ==
    IF r.k = "record"
    THEN [result EXCEPT !.bills = Append(@, r), !.downloaded_pdfs = Append(@, name)]
    ELSE [result EXCEPT !.errors = Append(@, [msg |-> "Error parsing", name |-> name, exc |-> r.exc]),
                        !.downloaded_pdfs = Append(@, name)]

\* the body of the loop: result after the try statement, r being what parse_pdf did
parse_one(result, name, r) ==
    IF r.k = "record"
    THEN [result EXCEPT !.bills = Append(@, r), !.downloaded_pdfs = Append(@, name)]
    ELSE [result EXCEPT !.errors = Append(@, [msg |-> "Error parsing", name |-> name, exc |-> r.exc])]

MaxPdfs == 3

\* the PDFs a download directory may hold: a bill, a notice, an empty scan, and a
\* link whose target is gone
Pdfs(p) ==
    LET h == Headers(p)
    IN {[exists |-> TRUE, text |-> t] : t \in h} \cup {[exists |-> FALSE, text |-> <<>>]}

InitBatch ==
    /\ provider \in BatchProviders
    /\ file_exists = TRUE
    /\ text = <<>>
    /\ now_year = 2026
    /\ pc = "start"
    /\ detected = "none"
    /\ record = None
    /\ error = "none"
    /\ files \in {[exists |-> FALSE, pdfs |-> <<>>]}
                 \cup {[exists |-> TRUE, pdfs |-> fs] : fs \in SeqsUpTo(Pdfs(provider), MaxPdfs)}
    /\ clock = 1
    /\ call = 0
    /\ returned = None

\* parse_local_pdfs up to the loop: the two early returns, or the first iteration next
ParseLocalPdfs ==
    /\ pc = "start"
    /\ IF ~files.exists
       THEN /\ returned' = [FetchResult EXCEPT !.errors = <<[msg |-> "Directory not found"]>>]
            /\ pc' = "returned"
            /\ UNCHANGED call
       ELSE IF files.pdfs = <<>>
       THEN /\ returned' = [FetchResult EXCEPT !.errors = <<[msg |-> "No PDF files found"]>>]
            /\ pc' = "returned"
            /\ UNCHANGED call
       ELSE /\ returned' = FetchResult
            /\ pc' = "loop"
            /\ call' = 1
    /\ UNCHANGED <<provider, file_exists, text, now_year, detected, record, error, files, clock>>

\* one iteration of the loop over pdf_files
ParseNextPdf ==
    /\ pc = "loop"
    /\ call <= Len(files.pdfs)
    /\ returned' = parse_one(returned, PdfName(call),
                             parse_pdf(provider, files.pdfs[call].exists, files.pdfs[call].text, now_year))
    /\ call' = call + 1
    /\ UNCHANGED <<provider, file_exists, text, now_year, pc, detected, record, error, files, clock>>

\* after the loop: result.success = len(result.bills) > 0 and the return
ReturnResult ==
    /\ pc = "loop"
    /\ call > Len(files.pdfs)
    /\ returned' = [returned EXCEPT !.success = Len(returned.bills) > 0]
    /\ pc' = "returned"
    /\ UNCHANGED <<provider, file_exists, text, now_year, detected, record, error, files, clock, call>>

SpecBatch == InitBatch /\ [][ParseLocalPdfs \/ ParseNextPdf \/ ReturnResult]_vars

\* the PDFs the loop has been through
Handled == IF pc = "start" THEN 0 ELSE IF pc = "loop" THEN call - 1 ELSE Len(files.pdfs)

\* the parse of the i-th PDF raises
ParseRaises(i) == parse_pdf(provider, files.pdfs[i].exists, files.pdfs[i].text, now_year).k = "raise"

\* C24: every PDF the loop has been through added one bill and one downloaded_pdfs entry
\* or, when its parse raised, one error and nothing else, and the loop went on to the
\* next one; at the return len(bills) = len(downloaded_pdfs), len(bills) plus the
\* per-file errors is the number of PDFs, and success is true iff a bill was parsed
C24_EachPdfOnItsOwn ==
    pc \in {"loop", "returned"} =>
        LET parsed == {i \in 1..Handled : ~ParseRaises(i)}
            failed == {i \in 1..Handled : ParseRaises(i)}
            per_file == {j \in DOMAIN returned.errors : returned.errors[j].msg = "Error parsing"}
        IN /\ Len(returned.bills) = Cardinality(parsed)
           /\ Len(returned.downloaded_pdfs) = Cardinality(parsed)
           /\ {returned.downloaded_pdfs[j] : j \in DOMAIN returned.downloaded_pdfs} = {PdfName(i) : i \in parsed}
           /\ {returned.errors[j].name : j \in per_file} = {PdfName(i) : i \in failed}
           /\ Cardinality(per_file) = Cardinality(failed)
           /\ pc = "returned" =>
                 /\ Len(returned.bills) = Len(returned.downloaded_pdfs)
                 /\ Len(returned.bills) + Cardinality(per_file) = Len(files.pdfs)
                 /\ returned.success = (Len(returned.bills) > 0)

\* a directory of three PDFs whose second one raised
C24_Witness ==
    /\ pc = "returned"
    /\ Len(files.pdfs) = 3
    /\ files.pdfs[1].exists /\ ~files.pdfs[2].exists /\ files.pdfs[3].exists
    /\ returned.success
    /\ returned.downloaded_pdfs = <<"bill_1.pdf", "bill_3.pdf">>
    /\ Len(returned.errors) = 1

-----------------------------------------------------------------------------
(* C25 *)

\* C25 as stated: a call of save_bill_pdf leaves every file that existed before the
\* call with the bytes it had
C25_SavedBytesKept ==
    [][(clock' = clock /\ call'.op = "save_bill_pdf")
        => \A q \in DOMAIN files : q \in DOMAIN files' /\ files'[q] = files[q]]_vars

-----------------------------------------------------------------------------
(* C26: address_to_slug on two addresses of one house number.              *)

\* addresses of house number 310, each with its street name
StreetAddresses ==
    LET A(address, street) == [label |-> address, val |-> Str(street)]
    IN {A("310 STERLING RD", "sterling-rd"), A("310 STEELE RD", "steele-rd"),
        A("310 APTOS RD", "aptos-rd"), A("310 SUITER RD", "suiter-rd"),
        A("310 UNITY RD, DURHAM NC 27701", "unity-rd"), A("310 HOWARD ST", "howard-st"),
        A("310 HOWARD ST APT 4", "howard-st"), A("310 Howard St, Unit 4", "howard-st"),
        A("310 OAK RD STE 200, DURHAM NC", "oak-rd"), A("310 OAK RD #5", "oak-rd"),
        A("310 MAPLE AVE SUITE 12", "maple-ave")}

InitStreet ==
    /\ provider = "duke"
    /\ file_exists = TRUE
    /\ text \in {<<a, b>> : a \in StreetAddresses, b \in StreetAddresses}
    /\ now_year = 2026
    /\ pc = "start"
    /\ detected = "none"
    /\ record = None
    /\ error = "none"
    /\ files = <<>>
    /\ clock = 1
    /\ call = None
    /\ returned = None

SpecStreet == InitStreet /\ [][AddressToSlug]_vars

\* C26 as stated: the slug keeps the house number and every word of the street name,
\* so two addresses of one house number on different streets have different slugs
C26_StreetNameKept ==
    pc = "slug" =>
        /\ \A i \in 1..2 : record[i] = "310-" \o text[i].val.s
        /\ text[1].val # text[2].val => record[1] # record[2]

-----------------------------------------------------------------------------
(* C27: SMUD find_value_after_label on texts that print a label more than   *)
(* once.                                                                    *)

LabelLines ==
    {"Location:", "Location: 123 MAIN ST", "Service Address 55 OAK RD", "SERVICE LOCATION",
     "Account Summary", "location:\t9 ELM CT"}

LabelLists ==
    {<<"Location:", "Location", "Service Address", "Service Location", "Property Address">>,
     <<"Service Location", "Location:">>}

MaxLines == 3

InitLabel ==
    /\ provider = "smud"
    /\ file_exists = TRUE
    /\ text \in SeqsUpTo({Line(l) : l \in LabelLines}, MaxLines)
    /\ now_year = 2026
    /\ pc = "start"
    /\ detected = "none"
    /\ record = None
    /\ error = "none"
    /\ files = <<>>
    /\ clock = 1
    /\ call \in LabelLists
    /\ returned = None

\* find_value_after_label(text, labels)
FindValueAfterLabel ==
    /\ pc = "start"
    /\ record' = find_value_after_label(JoinLines(text), call)
    /\ pc' = "found"
    /\ UNCHANGED <<provider, file_exists, text, now_year, detected, error, files, clock, call, returned>>

SpecLabel == InitLabel /\ [][FindValueAfterLabel]_vars

\* the stripped characters that follow the label printed at position i of t, after
\* colons, spaces and tabs and up to the next stop character
ValueAt(t, label, i) ==
    LET Until(from) == Strip(SubSeq(t, from, from + RunLen(t, from, "^\n\t", Len(t)) - 1))
    IN Until(i + Len(label) + RunLen(t, i + Len(label), ": \t", Len(t)))

\* some label of the list is printed somewhere in t with a value after it
SomeLabelValue(t, labels) ==
    \E n \in DOMAIN labels : \E i \in 1..(Len(t) - Len(labels[n]) + 1) :
        /\ Lower(SubSeq(t, i, i + Len(labels[n]) - 1)) = Lower(labels[n])
        /\ ValueAt(t, labels[n], i) # ""

\* C27 as stated: a non-empty value is returned whenever some occurrence of some label
\* has one, and not-found only when none has
C27_ValueWheneverLabelled ==
    pc = "found" =>
        IF SomeLabelValue(JoinLines(text), call) THEN record # None /\ record.s # ""
        ELSE record = None

-----------------------------------------------------------------------------
(* C28: SMUD extract_number_sequence on texts made of digit runs.           *)

\* the pieces of a text: digit runs of several lengths and what separates them
DigitPieces == {"1234567", "7654321", "1234567890", "12345", "Account ", "-"}

RunLengths == {5, 7}

MaxPieces == 3

InitDigits ==
    /\ provider = "smud"
    /\ file_exists = TRUE
    /\ text \in SeqsUpTo(DigitPieces, MaxPieces)
    /\ now_year = 2026
    /\ pc = "start"
    /\ detected = "none"
    /\ record = None
    /\ error = "none"
    /\ files = <<>>
    /\ clock = 1
    /\ call \in RunLengths
    /\ returned = None

\* extract_number_sequence(text, length)
ExtractNumberSequence ==
    /\ pc = "start"
    /\ record' = extract_number_sequence(Concat(text), call)
    /\ pc' = "extracted"
    /\ UNCHANGED <<provider, file_exists, text, now_year, detected, error, files, clock, call, returned>>

SpecDigits == InitDigits /\ [][ExtractNumberSequence]_vars

\* the positions of t where a run of exactly n digits starts that has no digit before
\* it and none after it
MaximalRuns(t, n) ==
    {i \in 1..(Len(t) - n + 1) :
        /\ \A j \in i..(i + n - 1) : SubSeq(t, j, j) \in DigitSet
        /\ (i = 1 \/ SubSeq(t, i - 1, i - 1) \notin DigitSet)
        /\ (i + n - 1 = Len(t) \/ SubSeq(t, i + n, i + n) \notin DigitSet)}

\* C28 as stated: a digit string is returned only when the text has a maximal run of
\* exactly n digits, and it is the first such run
C28_ExactRunOnly ==
    (pc = "extracted" /\ record # None) =>
        LET runs == MaximalRuns(Concat(text), call)
        IN /\ runs # {}
           /\ \E i \in runs : /\ \A j \in runs : i <= j
                              /\ record.s = SubSeq(Concat(text), i, i + call - 1)

-----------------------------------------------------------------------------
(* SMUD: the character scans for a date, extract_date_from_text of the      *)
(* parser and _extract_date_from_text of the scraper.                       *)

\* date_str.split('/') of a string with exactly two slashes
SlashParts(date_str) ==
    LET Second(first, rest) == <<SubSeq(date_str, 1, first), SubSeq(rest, 1, Find(rest, "/")),
                                 SubSeq(rest, Find(rest, "/") + 2, Len(rest))>>
        First(first) == Second(first, SubSeq(date_str, first + 2, Len(date_str)))
    IN First(Find(date_str, "/"))

\* the strings strptime reads as %m (bound 12) or as %d (bound 31)
FieldOK(str, bound) ==
    /\ Len(str) \in {1, 2}
    /\ \A i \in 1..Len(str) : SubSeq(str, i, i) \in DigitSet
    /\ IntOf(str) \in 1..bound

\* parse_date(date_str) of the SMUD parser for a string of digits and two slashes:
\* only "%m/%d/%Y" and "%m/%d/%y" can read it
parse_slash_date(date_str) ==
    LET Read(parts) ==
            IF ~(FieldOK(parts[1], 12) /\ FieldOK(parts[2], 31)) THEN None
            ELSE IF Len(parts[3]) = 4 THEN MakeDate(IntOf(parts[3]), IntOf(parts[1]), IntOf(parts[2]))
            ELSE IF Len(parts[3]) = 2
            THEN MakeDate(Pivot(IntOf(parts[3])), IntOf(parts[1]), IntOf(parts[2]))
            ELSE None
    IN Read(SlashParts(date_str))

\* the try block of the scraper's _extract_date_from_text
scraper_slash_date(date_str) ==
    LET Read(parts) ==
            IF \E n \in 1..3 : parts[n] = "" THEN None
            ELSE IF /\ IntOf(parts[1]) \in 1..12
                    /\ IntOf(parts[2]) \in 1..31
                    /\ IntOf(parts[3]) \in 2000..2100
            THEN MakeDate(IntOf(parts[3]), IntOf(parts[1]), IntOf(parts[2]))
            ELSE None
    IN Read(SlashParts(date_str))

RECURSIVE ScanRun(_, _, _, _, _)
\* the inner while loop from text[j] on, the run having started at i with slash_count
\* slashes before j: the date returned, or where the outer loop goes on
ScanRun(t, i, j, slash_count, scraper) ==
    LET now_count == slash_count + (IF SubSeq(t, j, j) = "/" THEN 1 ELSE 0)
        Read(date_str) == IF scraper THEN scraper_slash_date(date_str) ELSE parse_slash_date(date_str)
        Or(parsed) == IF parsed # None THEN parsed ELSE [k |-> "next", i |-> j + 1]
    IN IF j > Len(t) \/ SubSeq(t, j, j) \notin (DigitSet \cup {"/"}) THEN [k |-> "next", i |-> j]
       ELSE IF now_count = 2 /\ j - i + 1 >= 8 THEN Or(Read(SubSeq(t, i, j)))
       ELSE ScanRun(t, i, j + 1, now_count, scraper)

RECURSIVE ScanDates(_, _, _)
\* the outer while loop from text[i] on
ScanDates(t, i, scraper) ==
    LET After(r) == IF r.k = "next" THEN ScanDates(t, r.i, scraper) ELSE r
    IN IF i > Len(t) THEN None
       ELSE IF SubSeq(t, i, i) \in DigitSet THEN After(ScanRun(t, i, i, 0, scraper))
       ELSE ScanDates(t, i + 1, scraper)

\* extract_date_from_text(text) of the parser
extract_date_from_text(t) == ScanDates(t, 1, FALSE)

\* _extract_date_from_text(text) of the scraper
scraper_extract_date_from_text(t) == ScanDates(t, 1, TRUE)

-----------------------------------------------------------------------------
(* C29: the scans on texts that print one date with a four-digit year.      *)

\* a date printed with and without leading zeros, with one- and two-digit months and
\* days, alone on its line or between other words
SlashDates ==
    {[label |-> Concat(<<before, mm, "/", dd, "/", Zfill(y, 4), after>>),
      val |-> Date(y, IntOf(mm), IntOf(dd))] :
        before \in {"", "Due Date: "}, after \in {"", " Rate: Time of Day"},
        mm \in {"1", "01", "10", "12"}, dd \in {"5", "05", "15", "31"}, y \in {2025, 2026}}

InitScan ==
    /\ provider = "smud"
    /\ file_exists = TRUE
    /\ text \in {<<l>> : l \in SlashDates}
    /\ now_year = 2026
    /\ pc = "start"
    /\ detected = "none"
    /\ record = None
    /\ error = "none"
    /\ files = <<>>
    /\ clock = 1
    /\ call = None
    /\ returned = None

\* extract_date_from_text(text) and the scraper's _extract_date_from_text(text)
ExtractDateFromText ==
    /\ pc = "start"
    /\ record' = [parser |-> extract_date_from_text(text[1].label),
                  scraper |-> scraper_extract_date_from_text(text[1].label)]
    /\ pc' = "scanned"
    /\ UNCHANGED <<provider, file_exists, text, now_year, detected, error, files, clock, call, returned>>

SpecScan == InitScan /\ [][ExtractDateFromText]_vars

\* C29 as stated: both scans return the date the text prints as MM/DD/YYYY or M/D/YYYY,
\* with its four-digit year
C29_FourDigitYearDate ==
    pc = "scanned" => record.parser = text[1].val /\ record.scraper = text[1].val

-----------------------------------------------------------------------------
(* Spectrum mfa_helper: get_mfa_code_from_gmail.  A pattern is a sequence   *)
(* of elements: a literal, a greedy run of a character class, alternative  *)
(* words, the group (\d{6}), a word boundary.  In these patterns a class is *)
(* always followed by characters outside it and alternatives start with     *)
(* different letters, so a match never has to back up.                      *)

Lit(str) == [t |-> "lit", s |-> str]

OneOrMore(chars) == [t |-> "cls", chars |-> chars, min |-> 1]

ZeroOrMore(chars) == [t |-> "cls", chars |-> chars, min |-> 0]

Words(strs) == [t |-> "alt", ss |-> strs]

SixDigits == [t |-> "d6"]

Boundary == [t |-> "b"]

ColonSpace == WhiteChars \cup {":"}

DotSpace == WhiteChars \cup {"."}

\* code_patterns, in the order of the list
code_patterns ==
    <<  <<Lit("verification code"), OneOrMore(ColonSpace), Lit("is"), ZeroOrMore(ColonSpace), SixDigits>>,
        <<Lit("your code"), OneOrMore(ColonSpace), Lit("is"), ZeroOrMore(ColonSpace), SixDigits>>,
        <<Words(<<"code", "pin", "verification">>), OneOrMore(ColonSpace), SixDigits>>,
        <<SixDigits, OneOrMore(WhiteChars), Lit("is your")>>,
        <<Lit("enter"), OneOrMore(ColonSpace), SixDigits>>,
        <<Lit("code"), ZeroOrMore(ColonSpace), SixDigits>>,
        <<SixDigits, OneOrMore(DotSpace), Words(<<"this", "enter", "use">>)>>,
        <<Boundary, SixDigits, Boundary>>  >>

\* the pattern that is used for mail from Spectrum only
standalone == Len(code_patterns)

\* invalid_codes
invalid_codes == {"000000", "123456", "111111", "999999"}

\* str is at position pos of t, letter case ignored
LitAt(t, pos, str) ==
    /\ pos + Len(str) - 1 <= Len(t)
    /\ Lower(SubSeq(t, pos, pos + Len(str) - 1)) = str

\* \w at position pos of t
WordAt(t, pos) ==
    /\ pos \in 1..Len(t)
    /\ LowerChar(SubSeq(t, pos, pos)) \in (LetterSet \cup DigitSet \cup {"_"})

RECURSIVE MatchFrom(_, _, _, _, _)
\* the elements n.. of pat matched at position pos of t, re.IGNORECASE: whether they
\* match and group(1)
MatchFrom(t, pos, pat, n, group) ==
    LET Fail == [ok |-> FALSE, code |-> ""]
        Go(to, g) == MatchFrom(t, to, pat, n + 1, g)
        Run(e) == IF CharRun(t, pos, e.chars) >= e.min THEN Go(pos + CharRun(t, pos, e.chars), group)
                  ELSE Fail
        Word(e, hits) == IF hits = {} THEN Fail
                         ELSE Go(pos + Len(e.ss[CHOOSE i \in hits : \A j \in hits : i <= j]), group)
    IN IF n > Len(pat) THEN [ok |-> TRUE, code |-> group]
       ELSE CASE pat[n].t = "lit" ->
                    IF LitAt(t, pos, pat[n].s) THEN Go(pos + Len(pat[n].s), group) ELSE Fail
              [] pat[n].t = "cls" -> Run(pat[n])
              [] pat[n].t = "alt" -> Word(pat[n], {i \in DOMAIN pat[n].ss : LitAt(t, pos, pat[n].ss[i])})
              [] pat[n].t = "d6" ->
                    IF CharRun(t, pos, DigitSet) >= 6 THEN Go(pos + 6, SubSeq(t, pos, pos + 5)) ELSE Fail
              [] OTHER -> IF WordAt(t, pos - 1) # WordAt(t, pos) THEN Go(pos, group) ELSE Fail

\* re.search(pattern, search_text, re.IGNORECASE): group(1) of the leftmost match
re_search(pat, t) ==
    LET At(starts) == IF starts = {} THEN None
                      ELSE Str(MatchFrom(t, CHOOSE i \in starts : \A j \in starts : i <= j, pat, 1, "").code)
    IN At({i \in 1..(Len(t) + 1) : MatchFrom(t, i, pat, 1, "").ok})

\* the loop over code_patterns for one message: the code returned, None when no pattern
\* matches
code_in(msg) ==
    LET is_spectrum_email == Contains(Lower(msg.from_addr), "spectrum") \/ Contains(Lower(msg.from_addr), "charter")
        search_text == Concat(<<msg.subject, " ", msg.body>>)
    IN FirstSome([n \in 1..Len(code_patterns) |->
                    IF n = standalone /\ ~is_spectrum_email THEN None
                    ELSE re_search(code_patterns[n], search_text)])

\* search_queries: what each asks of the From and Subject headers
search_queries ==
    <<[header |-> "from", str |-> "spectrumemails.com"], [header |-> "from", str |-> "spectrum"],
      [header |-> "from", str |-> "charter"], [header |-> "subject", str |-> "verification code"]>>

\* the positions of the inbox that mail.search(None, query) returns
Search(inbox, query) ==
    {i \in DOMAIN inbox :
        Contains(Lower(IF query.header = "from" THEN inbox[i].from_addr ELSE inbox[i].subject), query.str)}

\* the first message, in the order of the queries and from the newest of each query's
\* messages to the oldest, that is not older than the cutoff and holds a code: its
\* position in the inbox, 0 when there is none
first_with_code(inbox) ==
    LET Good(i) == ~inbox[i].old /\ code_in(inbox[i]) # None
        Newest(ids) == IF ids = {} THEN 0 ELSE CHOOSE i \in ids : \A j \in ids : j <= i
        PerQuery == [q \in DOMAIN search_queries |-> Newest({i \in Search(inbox, search_queries[q]) : Good(i)})]
        Found(qs) == IF qs = {} THEN 0 ELSE PerQuery[CHOOSE q \in qs : \A r \in qs : q <= r]
    IN Found({q \in DOMAIN search_queries : PerQuery[q] # 0})

-----------------------------------------------------------------------------
(* C30: get_mfa_code_from_gmail polling an inbox that mail arrives in.  files *)
(* is the inbox, clock the polls done, returned what the function returns.  *)

Senders == {"myaccount@spectrumemails.com", "alerts@bank.example"}

MailTexts ==
    {[subject |-> "Spectrum Verification Code", body |-> "Your verification code is: 482913"],
     [subject |-> "Spectrum Verification Code", body |-> "Your verification code is: 123456"],
     [subject |-> "Your code", body |-> "000000 is your code. Enter it to sign in."],
     [subject |-> "Sign in", body |-> "Use 999999. This code expires soon."],
     [subject |-> "Verification Code", body |-> "Order 111111 has shipped"],
     [subject |-> "Welcome", body |-> "Thank you for choosing us"]}

Emails ==
    {[from_addr |-> f, subject |-> m.subject, body |-> m.body, old |-> o, seen |-> FALSE] :
        f \in Senders, m \in MailTexts, o \in BOOLEAN}

MaxInbox == 2

MaxPolls == 2

InitMfa ==
    /\ provider = "spectrum"
    /\ file_exists = TRUE
    /\ text = <<>>
    /\ now_year = 2026
    /\ pc = "polling"
    /\ detected = "none"
    /\ record = None
    /\ error = "none"
    /\ files \in SeqsUpTo(Emails, 1)
    /\ clock = 0
    /\ call = None
    /\ returned = None

\* a message is delivered to the inbox
Arrive ==
    /\ pc = "polling"
    /\ Len(files) < MaxInbox
    /\ \E msg \in Emails : files' = Append(files, msg)
    /\ UNCHANGED <<provider, file_exists, text, now_year, pc, detected, record, error, clock, call, returned>>

\* one pass of the while loop: the code of the first message that has one is returned
\* and the message marked as read, otherwise the function sleeps
Poll ==
    /\ pc = "polling"
    /\ clock < MaxPolls
    /\ LET Pass(i) == IF i = 0
                      THEN /\ clock' = clock + 1
                           /\ UNCHANGED <<files, pc, returned>>
                      ELSE /\ returned' = code_in(files[i])
                           /\ files' = [files EXCEPT ![i].seen = TRUE]
                           /\ pc' = "returned"
                           /\ UNCHANGED clock
       IN Pass(first_with_code(files))
    /\ UNCHANGED <<provider, file_exists, text, now_year, detected, record, error, call>>

\* the time is up: return None
Timeout ==
    /\ pc = "polling"
    /\ clock = MaxPolls
    /\ returned' = None
    /\ pc' = "returned"
    /\ UNCHANGED <<provider, file_exists, text, now_year, detected, record, error, files, clock, call>>

SpecMfa == InitMfa /\ [][Arrive \/ Poll \/ Timeout]_vars

\* C30 as stated: the code returned is never one of the placeholder codes
C30_NoPlaceholderCode ==
    (pc = "returned" /\ returned # None) => returned.s \notin invalid_codes

====
